---- MODULE Spec2Model ----
(***************************************************************************)
(* Model of iafisher_foundation/command/command.py: the argument parser    *)
(* (parse, _parse, _parse_group, _parse_command) and dispatch.             *)
(*                                                                         *)
(* A command-line token is a Python str; it is modelled as the sequence of *)
(* its characters, so that startswith, split("=") and split(",") and the   *)
(* decimal / int literal tests are computed on the characters the way the  *)
(* code computes them.  Python indices are kept: argv[0] is the program    *)
(* name and is At(argv, 0).                                                *)
(***************************************************************************)
EXTENDS Integers, Sequences, FiniteSets, TLC

(***************************************************************************)
(* Bounds of the model.                                                    *)
(***************************************************************************)
\* number of tokens after the program name
MaxArgs == 3

\* how many declarations are made on one Command
MaxCalls == 3

(***************************************************************************)
(* Strings as character sequences.                                         *)
(***************************************************************************)
At(seq, i) == seq[i + 1]

\* seq[i:] of Python
From(seq, i) == SubSeq(seq, i + 1, Len(seq))

Digits == {"0", "1", "2", "3", "4", "5", "6", "7", "8", "9"}

\* the character \033
ESC == "ESC"

DigitValue(c) ==
    CASE c = "0" -> 0 [] c = "1" -> 1 [] c = "2" -> 2 [] c = "3" -> 3
      [] c = "4" -> 4 [] c = "5" -> 5 [] c = "6" -> 6 [] c = "7" -> 7
      [] c = "8" -> 8 [] c = "9" -> 9

Lower(c) ==
    CASE c = "E" -> "e" [] c = "I" -> "i" [] c = "N" -> "n" [] c = "F" -> "f"
      [] c = "T" -> "t" [] c = "Y" -> "y" [] c = "A" -> "a" [] c = "S" -> "s"
      [] OTHER -> c

LowerAll(s) == [i \in 1..Len(s) |-> Lower(s[i])]

\* s.startswith(p)
StartsWith(s, p) == Len(s) >= Len(p) /\ SubSeq(s, 1, Len(p)) = p

\* c in s
Contains(s, c) == \E i \in 1..Len(s) : s[i] = c

\* position (1-based) of the first c in s; only used when Contains(s, c)
FirstPos(s, c) == CHOOSE i \in 1..Len(s) : s[i] = c /\ \A j \in 1..(i - 1) : s[j] # c

\* s.split(c, maxsplit=1) for a string that contains c: <<head, tail>>
SplitOnce(s, c) ==
    LET p == FirstPos(s, c)
    IN  <<SubSeq(s, 1, p - 1), SubSeq(s, p + 1, Len(s))>>

\* s.split(c): the list of the pieces between the occurrences of c
RECURSIVE Split(_, _)
Split(s, c) ==
    IF Contains(s, c)
    THEN LET p == FirstPos(s, c)
         IN  <<SubSeq(s, 1, p - 1)>> \o Split(SubSeq(s, p + 1, Len(s)), c)
    ELSE <<s>>

\* first position >= i (1-based) of s that holds no digit, Len(s) + 1 if none
RECURSIVE SpanDigits(_, _)
SpanDigits(s, i) ==
    IF i <= Len(s) /\ s[i] \in Digits THEN SpanDigits(s, i + 1) ELSE i

(***************************************************************************)
(* _is_decimal_number: decimal.Decimal(s) does not raise.  The accepted    *)
(* strings are those of the decimal module's grammar:                      *)
(*   [sign] (digits [. [digits]] | . digits) [e [sign] digits]             *)
(*   [sign] inf | [sign] infinity | [sign] [s]nan [digits]                 *)
(***************************************************************************)
IsDecimalBody(s) ==
    LET low == LowerAll(s)
        numeric ==
            /\ Len(s) >= 1
            /\ \/ s[1] \in Digits
               \/ Len(s) >= 2 /\ s[1] = "." /\ s[2] \in Digits
            /\ LET j == SpanDigits(s, 1)
                   k == IF j <= Len(s) /\ s[j] = "." THEN SpanDigits(s, j + 1) ELSE j
               IN  \/ k = Len(s) + 1
                   \/ /\ k <= Len(s)
                      /\ low[k] = "e"
                      /\ LET m == IF k + 1 <= Len(s) /\ s[k + 1] \in {"+", "-"}
                                  THEN k + 2 ELSE k + 1
                         IN  m <= Len(s) /\ SpanDigits(s, m) = Len(s) + 1
        nan ==
            \/ StartsWith(low, <<"n", "a", "n">>) /\ SpanDigits(s, 4) = Len(s) + 1
            \/ StartsWith(low, <<"s", "n", "a", "n">>) /\ SpanDigits(s, 5) = Len(s) + 1
    IN  \/ numeric
        \/ low = <<"i", "n", "f">>
        \/ low = <<"i", "n", "f", "i", "n", "i", "t", "y">>
        \/ nan

_is_decimal_number(s) ==
    IF Len(s) >= 1 /\ s[1] \in {"+", "-"}
    THEN IsDecimalBody(Tail(s))
    ELSE IsDecimalBody(s)

\* _is_flag without the exception for negative numbers
_is_flag_any_hyphen(name) ==
    /\ StartsWith(name, <<"-">>)
    /\ Len(name) >= 2

_is_flag(name) ==
    /\ StartsWith(name, <<"-">>)
    /\ Len(name) >= 2
    /\ ~_is_decimal_number(Tail(name))

HelpFlags == {<<"-", "h">>, <<"-", "h", "e", "l", "p">>,
              <<"-", "-", "h", "e", "l", "p">>, <<"-", "?">>}

VersionFlags == {<<"-", "v", "e", "r", "s", "i", "o", "n">>,
                 <<"-", "-", "v", "e", "r", "s", "i", "o", "n">>}

_is_help_flag(name) == name \in HelpFlags

_is_version_flag(name) == name \in VersionFlags

(***************************************************************************)
(* Python values.  Every value is a record of one shape: a tag t, the      *)
(* characters s of a str, the number n of an int or bool, and the items l  *)
(* of a list (each item again such a record, with no items of its own).    *)
(***************************************************************************)
NOTHING == [t |-> "NOTHING", s |-> <<>>, n |-> 0, l |-> <<>>]

None == [t |-> "None", s |-> <<>>, n |-> 0, l |-> <<>>]

PyStr(tok) == [t |-> "str", s |-> tok, n |-> 0, l |-> <<>>]

PyInt(k) == [t |-> "int", s |-> <<>>, n |-> k, l |-> <<>>]

PyBool(b) == [t |-> "bool", s |-> <<>>, n |-> IF b THEN 1 ELSE 0, l |-> <<>>]

PyList(items) == [t |-> "list", s |-> <<>>, n |-> 0, l |-> items]

\* a list of str made of tokens
StrList(toks) == PyList([i \in 1..Len(toks) |-> PyStr(toks[i])])

(***************************************************************************)
(* Exceptions.  exc is the class ("none" when nothing was raised); msg is  *)
(* the text of a CmdError up to its interpolated part, arg / names the     *)
(* interpolated token or names; cmd_or_group, index and message are the    *)
(* fields of CmdHelpError.                                                 *)
(***************************************************************************)
Exception(exc, msg, arg, names, node, i, message) ==
    [exc |-> exc, msg |-> msg, arg |-> arg, names |-> names,
     cmd_or_group |-> node, index |-> i, message |-> message]

NoException == Exception("none", "", <<>>, <<>>, "", 0, "")

CmdError(msg, arg, names) == Exception("CmdError", msg, arg, names, "", 0, "")

CmdHelpError(node, i, message, arg) ==
    Exception("CmdHelpError", "", arg, <<>>, node, i, message)

CmdVersionError == Exception("CmdVersionError", "", <<>>, <<>>, "", 0, "")

\* what a converter raises on a value it cannot convert
ConverterError(exc, arg) == Exception(exc, "converter", arg, <<>>, "", 0, "")

(***************************************************************************)
(* Converters: the callables stored in ArgSpec.converter.  "int" and "str" *)
(* are the Python builtins, "None" is no converter (identity is used).     *)
(* Each returns <<exc, value>>, exc being "none" when the call returns.    *)
(***************************************************************************)
\* int(s) accepts an optional sign followed by at least one digit
IsIntLiteral(s) ==
    LET body == IF Len(s) >= 1 /\ s[1] \in {"+", "-"} THEN Tail(s) ELSE s
    IN  Len(body) >= 1 /\ SpanDigits(body, 1) = Len(body) + 1

RECURSIVE DigitsValue(_)
DigitsValue(s) ==
    IF s = <<>> THEN 0
    ELSE 10 * DigitsValue(SubSeq(s, 1, Len(s) - 1)) + DigitValue(s[Len(s)])

IntOf(s) ==
    IF s[1] = "-" THEN 0 - DigitsValue(Tail(s))
    ELSE IF s[1] = "+" THEN DigitsValue(Tail(s))
    ELSE DigitsValue(s)

DigitChar(d) ==
    CASE d = 0 -> "0" [] d = 1 -> "1" [] d = 2 -> "2" [] d = 3 -> "3"
      [] d = 4 -> "4" [] d = 5 -> "5" [] d = 6 -> "6" [] d = 7 -> "7"
      [] d = 8 -> "8" [] d = 9 -> "9"

RECURSIVE NatToStr(_)
NatToStr(k) ==
    IF k < 10 THEN <<DigitChar(k)>> ELSE NatToStr(k \div 10) \o <<DigitChar(k % 10)>>

IntToStr(k) == IF k < 0 THEN <<"-">> \o NatToStr(0 - k) ELSE NatToStr(k)

int(x) ==
    CASE x.t = "str" ->
            IF IsIntLiteral(x.s) THEN <<"none", PyInt(IntOf(x.s))>>
            ELSE <<"ValueError", x>>
      [] x.t = "int" -> <<"none", x>>
      [] x.t = "bool" -> <<"none", PyInt(x.n)>>
      [] OTHER -> <<"TypeError", x>>

str(x) ==
    CASE x.t = "str" -> <<"none", x>>
      [] x.t = "int" -> <<"none", PyStr(IntToStr(x.n))>>
      [] x.t = "bool" ->
            <<"none", PyStr(IF x.n = 1 THEN <<"T", "r", "u", "e">>
                          ELSE <<"F", "a", "l", "s", "e">>)>>
      [] x.t = "None" -> <<"none", PyStr(<<"N", "o", "n", "e">>)>>
      [] OTHER -> <<"none", x>>

identity(x) == <<"none", x>>

\* converter(x) for the converter named conv ("None": `spec.converter or identity`)
CallConverter(conv, x) ==
    CASE conv = "int" -> int(x)
      [] conv = "str" -> str(x)
      [] OTHER -> identity(x)

(***************************************************************************)
(* ArgSpec, as Command._switch, Command._arg and Command._flag build it.   *)
(* n is the ArgCount ("zero", "one", "many"); names are tokens, dest is    *)
(* the name of the handler's parameter.                                    *)
(***************************************************************************)
ArgSpec(name, n, required, default, converter, dest) ==
    [name |-> name, n |-> n, required |-> required, default |-> default,
     converter |-> converter, dest |-> dest]

_switch(name, dest) == ArgSpec(name, "zero", FALSE, PyBool(FALSE), "None", dest)

_arg(name, required, n, converter, dest) ==
    ArgSpec(name, n, required, IF n = "many" THEN PyList(<<>>) ELSE NOTHING,
            converter, dest)

_flag(name, n, required, default, converter, dest) ==
    ArgSpec(name, n, required,
            IF default = NOTHING /\ ~required
            THEN (IF n = "many" THEN PyList(<<>>) ELSE None)
            ELSE default,
            converter, dest)

\* Mutex(optional) together with the flag names from_function collects for it
Mutex(mutex_id, optional, flags) ==
    [mutex_id |-> mutex_id, optional |-> optional, flags |-> flags]

\* a Command after from_function; passthrough is "" for None
Command(name, passthrough, positionals, flags, mutexes) ==
    [name |-> name, _passthrough |-> passthrough, _positionals |-> positionals,
     _flags |-> flags, _mutexes |-> mutexes, less_logging |-> TRUE]

(***************************************************************************)
(* The commands of the model, each the result of Command.from_function on  *)
(* the signature given beside it.                                          *)
(***************************************************************************)
\* def f(a: str)
CmdPos1 ==
    Command("pos1", "", <<_arg(<<"a">>, TRUE, "one", "str", "a")>>, <<>>, <<>>)

\* def f(a: str, b: str)
CmdPos2 ==
    Command("pos2", "",
            <<_arg(<<"a">>, TRUE, "one", "str", "a"),
              _arg(<<"b">>, TRUE, "one", "str", "b")>>, <<>>, <<>>)

\* def f(words: List[str], *, n: bool, f: Optional[str])
CmdEcho ==
    Command("echo", "",
            <<_arg(<<"w", "o", "r", "d", "s">>, TRUE, "many", "str", "words")>>,
            <<_switch(<<"-", "n">>, "n"),
              _flag(<<"-", "f">>, "one", FALSE, NOTHING, "str", "f")>>, <<>>)

\* def f(x: Optional[int], *, l: int)
CmdNum ==
    Command("num", "",
            <<_arg(<<"x">>, FALSE, "one", "int", "x")>>,
            <<_flag(<<"-", "l">>, "one", TRUE, NOTHING, "int", "l")>>, <<>>)

\* def f(*, t: List[str] = [])
CmdTags ==
    Command("tags", "", <<>>,
            <<_flag(<<"-", "t">>, "many", FALSE, PyList(<<>>), "str", "t")>>, <<>>)

\* mutex = Mutex()
\* def f(*, s: Annotated[bool, Extra(mutex=mutex)],
\*          q: Annotated[Optional[str], Extra(mutex=mutex)])
CmdMutex ==
    Command("mutex", "", <<>>,
            <<_switch(<<"-", "s">>, "s"),
              _flag(<<"-", "q">>, "one", FALSE, NOTHING, "str", "q")>>,
            <<Mutex("m", FALSE, <<(<<"-", "s">>), (<<"-", "q">>)>>)>>)

\* the same with mutex = Mutex(optional=True)
CmdMutexOpt ==
    Command("mutexopt", "", <<>>,
            <<_switch(<<"-", "s">>, "s"),
              _flag(<<"-", "q">>, "one", FALSE, NOTHING, "str", "q")>>,
            <<Mutex("m", TRUE, <<(<<"-", "s">>), (<<"-", "q">>)>>)>>)

\* def f(args: Annotated[List[str], Extra(passthrough=True)])
CmdPass == Command("pass", "args", <<>>, <<>>, <<>>)

\* Command.from_function(f, less_logging=False) for def f(a: str)
CmdLoud ==
    [Command("loud", "", <<_arg(<<"a">>, TRUE, "one", "str", "a")>>, <<>>, <<>>)
        EXCEPT !.less_logging = FALSE]

\* def f(*, k: Annotated[int, Extra(default="5")], m: List[int] = [])
CmdConv ==
    Command("conv", "", <<>>,
            <<_flag(<<"-", "k">>, "one", FALSE, PyStr(<<"5">>), "int", "k"),
              _flag(<<"-", "m">>, "many", FALSE, PyList(<<>>), "int", "m")>>, <<>>)

\* def f(a: str, rest: Optional[List[str]])
CmdRest ==
    Command("rest", "",
            <<_arg(<<"a">>, TRUE, "one", "str", "a"),
              _arg(<<"r", "e", "s", "t">>, FALSE, "many", "str", "rest")>>, <<>>, <<>>)

\* mutex = Mutex()
\* def f(a: str, *, z: int, b: int, s: Annotated[bool, Extra(mutex=mutex)],
\*                   q: Annotated[Optional[str], Extra(mutex=mutex)])
CmdFull ==
    Command("full", "",
            <<_arg(<<"a">>, TRUE, "one", "str", "a")>>,
            <<_flag(<<"-", "z">>, "one", TRUE, NOTHING, "int", "z"),
              _flag(<<"-", "b">>, "one", TRUE, NOTHING, "int", "b"),
              _switch(<<"-", "s">>, "s"),
              _flag(<<"-", "q">>, "one", FALSE, NOTHING, "str", "q")>>,
            <<Mutex("m", FALSE, <<(<<"-", "s">>), (<<"-", "q">>)>>)>>)

Commands ==
    {CmdPos1, CmdPos2, CmdEcho, CmdNum, CmdTags, CmdMutex, CmdMutexOpt, CmdPass,
     CmdLoud, CmdConv, CmdRest, CmdFull}

CommandNames == {c.name : c \in Commands}

CommandOf(name) == CHOOSE c \in Commands : c.name = name

(***************************************************************************)
(* Groups: subcmds is the dict of Group.add, as the list of its items.     *)
(***************************************************************************)
Group(name, subcmds) == [name |-> name, subcmds |-> subcmds]

SubCmd(key, node) == [key |-> key, node |-> node]

\* root = Group(); root.add("r", pass); root.add("g", sub)
GroupRoot ==
    Group("root", <<SubCmd(<<"r">>, "pass"), SubCmd(<<"g">>, "sub")>>)

\* sub = Group(); sub.add("p", pos1)
GroupSub == Group("sub", <<SubCmd(<<"p">>, "pos1")>>)

\* Group() to which nothing was added
GroupEmpty == Group("empty", <<>>)

Groups == {GroupRoot, GroupSub, GroupEmpty}

GroupNames == {g.name : g \in Groups}

GroupOf(name) == CHOOSE g \in Groups : g.name = name

\* SubcmdsGet that finds the first subcommand under every name
SubcmdsGetFirst(group, arg) == group.subcmds[1].node

\* group.subcmds.get(arg): the node's name, "" for None
SubcmdsGet(group, arg) ==
    IF \E i \in 1..Len(group.subcmds) : group.subcmds[i].key = arg
    THEN group.subcmds[CHOOSE i \in 1..Len(group.subcmds) : group.subcmds[i].key = arg].node
    ELSE ""

(***************************************************************************)
(* sorted() on names: Python compares str by code point.                   *)
(***************************************************************************)
Alphabet ==
    <<"a", "b", "c", "d", "e", "f", "g", "h", "i", "j", "k", "l", "m",
      "n", "o", "p", "q", "r", "s", "t", "u", "v", "w", "x", "y", "z">>

\* ord(c) for the characters that occur in names
Ord(c) ==
    IF c \in Digits THEN 48 + DigitValue(c)
    ELSE IF \E i \in 1..26 : Alphabet[i] = c
    THEN 96 + (CHOOSE i \in 1..26 : Alphabet[i] = c)
    ELSE IF c = "-" THEN 45 ELSE IF c = "_" THEN 95
    ELSE IF c = ESC THEN 27 ELSE IF c = "[" THEN 91 ELSE 63

\* s < t for str
RECURSIVE StrLess(_, _)
StrLess(s, t) ==
    IF t = <<>> THEN FALSE
    ELSE IF s = <<>> THEN TRUE
    ELSE IF s[1] = t[1] THEN StrLess(Tail(s), Tail(t))
    ELSE Ord(s[1]) < Ord(t[1])

\* sorted(names)
RECURSIVE sorted(_)
sorted(names) ==
    IF names = <<>> THEN <<>>
    ELSE LET i == CHOOSE i \in 1..Len(names) :
                    \A j \in 1..Len(names) :
                        /\ ~StrLess(names[j], names[i])
                        /\ (names[j] = names[i] => i <= j)
             rest == [k \in 1..(Len(names) - 1) |->
                        IF k < i THEN names[k] ELSE names[k + 1]]
         IN  <<names[i]>> \o sorted(rest)

(***************************************************************************)
(* The locals of one _parse_command call, as a record (a frame):           *)
(*   index, done_with_flags, positionals_index,                            *)
(*   flags_to_parse, positionals_to_parse: lists of SpecAndValue,          *)
(*   mutexes: list of MutexState (satisfied is <<>> for None),             *)
(*   raised: the exception that ended the call (NoException if none),      *)
(*   args, kwargs: the ParseResult, lists of [dest, value] in dict order,  *)
(*   returned: the call has returned its ParseResult.                      *)
(***************************************************************************)
SpecAndValue(spec, value, is_set) == [spec |-> spec, value |-> value, is_set |-> is_set]

MutexState(mutex_id, satisfied, optional, eligible_flags) ==
    [mutex_id |-> mutex_id, satisfied |-> satisfied, optional |-> optional,
     eligible_flags |-> eligible_flags]

Bound(dest, value) == [dest |-> dest, value |-> value]

EmptyFrame ==
    [index |-> 0, done_with_flags |-> FALSE, positionals_index |-> 0,
     flags_to_parse |-> <<>>, positionals_to_parse |-> <<>>, mutexes |-> <<>>,
     raised |-> NoException, args |-> <<>>, kwargs |-> <<>>, returned |-> FALSE]

\* the locals before the scan loop of a command that is not passthrough
InitFrame(cmd, i) ==
    [EmptyFrame EXCEPT
        !.index = i,
        !.flags_to_parse =
            [k \in 1..Len(cmd._flags) |->
                SpecAndValue(cmd._flags[k], cmd._flags[k].default, FALSE)],
        !.positionals_to_parse =
            [k \in 1..Len(cmd._positionals) |->
                SpecAndValue(cmd._positionals[k], cmd._positionals[k].default, FALSE)],
        !.mutexes =
            [k \in 1..Len(cmd._mutexes) |->
                MutexState(cmd._mutexes[k].mutex_id, <<>>, cmd._mutexes[k].optional,
                           cmd._mutexes[k].flags)]]

\* PassthroughFrame that takes "--" for a marker and leaves it out
PassthroughFrameNoDashDash(cmd, argv, i) ==
    LET NotDashDash(tok) == tok # <<"-", "-">>
    IN  [EmptyFrame EXCEPT
            !.index = i,
            !.args = <<Bound(cmd._passthrough,
                             StrList(SelectSeq(From(argv, i), NotDashDash)))>>,
            !.returned = TRUE]

\* a passthrough command returns argv[index:] at once
PassthroughFrame(cmd, argv, i) ==
    [EmptyFrame EXCEPT
        !.index = i,
        !.args = <<Bound(cmd._passthrough, StrList(From(argv, i)))>>,
        !.returned = TRUE]

Raise(f, e) == [f EXCEPT !.raised = e]

\* flags_to_parse.get(name): the position in the list, 0 for None
FlagsGet(f, name) ==
    IF \E k \in 1..Len(f.flags_to_parse) : f.flags_to_parse[k].spec.name = name
    THEN CHOOSE k \in 1..Len(f.flags_to_parse) : f.flags_to_parse[k].spec.name = name
    ELSE 0

\* flag_to_mutex_id.get(name): the position of its MutexState, 0 for None
FlagToMutex(f, name) ==
    LET has(k) == \E j \in 1..Len(f.mutexes[k].eligible_flags) :
                      f.mutexes[k].eligible_flags[j] = name
    IN  IF \E k \in 1..Len(f.mutexes) : has(k)
        THEN CHOOSE k \in 1..Len(f.mutexes) :
                 has(k) /\ \A k2 \in (k + 1)..Len(f.mutexes) : ~has(k2)
        ELSE 0

(***************************************************************************)
(* _consume_one and _consume_multi: the token(s) taken at argv[index].     *)
(* Each returns [index, raised, value].                                    *)
(***************************************************************************)
Consumed(i, e, value) == [index |-> i, raised |-> e, value |-> value]

\* RefusesValue that refuses nothing
RefusesValueNever(arg) == FALSE

\* the test of _consume_one that refuses the next token
RefusesValue(arg) == _is_flag(arg)

\* _consume_one without `index += 1`
_consume_one_no_advance(argv, i, name) ==
    IF i >= Len(argv)
    THEN Consumed(i, CmdError("expected another argument", <<>>, <<>>), None)
    ELSE IF RefusesValue(At(argv, i))
    THEN Consumed(i, CmdError("expected argument after, not another flag", name, <<>>), None)
    ELSE Consumed(i, NoException, PyStr(At(argv, i)))

_consume_one(argv, i, name) ==
    IF i >= Len(argv)
    THEN Consumed(i, CmdError("expected another argument", <<>>, <<>>), None)
    ELSE IF RefusesValue(At(argv, i))
    THEN Consumed(i, CmdError("expected argument after, not another flag", name, <<>>), None)
    ELSE Consumed(i + 1, NoException, PyStr(At(argv, i)))

\* MultiTakes that does not stop at a token that looks like a flag
MultiTakesThroughFlags(argv, j, done_with_flags) == j < Len(argv)

\* the loop condition of _consume_multi at argv[j]
MultiTakes(argv, j, done_with_flags) ==
    j < Len(argv) /\ (done_with_flags \/ ~_is_flag(At(argv, j)))

\* the index at which the loop of _consume_multi stops
RECURSIVE MultiEnd(_, _, _)
MultiEnd(argv, j, done_with_flags) ==
    IF MultiTakes(argv, j, done_with_flags)
    THEN MultiEnd(argv, j + 1, done_with_flags)
    ELSE j

_consume_multi(argv, i, name, done_with_flags) ==
    IF i >= Len(argv)
    THEN Consumed(i, CmdError("expected another argument", <<>>, <<>>), None)
    ELSE LET j == MultiEnd(argv, i, done_with_flags)
         IN  IF j = i
             THEN Consumed(i, CmdError("expected argument after", name, <<>>), None)
             ELSE Consumed(j, NoException, StrList(SubSeq(argv, i + 1, j)))

(***************************************************************************)
(* The scan loop of _parse_command: one iteration at argv[index].          *)
(***************************************************************************)
DashDash == <<"-", "-">>

\* FlagsRecognized with the latch ignored
FlagsRecognizedAlways(done_with_flags) == TRUE

\* `not done_with_flags`, the guard of the help, version and flag branches
FlagsRecognized(done_with_flags) == ~done_with_flags

\* ScanBranch with the flag branch tested before the help and version ones
ScanBranchFlagsFirst(argv, f) ==
    LET arg == At(argv, f.index)
    IN  IF arg = DashDash THEN "dashdash"
        ELSE IF FlagsRecognized(f.done_with_flags) /\ _is_flag(arg) THEN "flag"
        ELSE IF FlagsRecognized(f.done_with_flags) /\ _is_help_flag(arg) THEN "help"
        ELSE IF FlagsRecognized(f.done_with_flags) /\ _is_version_flag(arg) THEN "version"
        ELSE "positional"

\* which branch of the if / elif chain the iteration takes
ScanBranch(argv, f) ==
    LET arg == At(argv, f.index)
    IN  IF arg = DashDash THEN "dashdash"
        ELSE IF FlagsRecognized(f.done_with_flags) /\ _is_help_flag(arg) THEN "help"
        ELSE IF FlagsRecognized(f.done_with_flags) /\ _is_version_flag(arg) THEN "version"
        ELSE IF FlagsRecognized(f.done_with_flags) /\ _is_flag(arg) THEN "flag"
        ELSE "positional"

\* ScanDashDash that sets the latch and leaves the cursor where it is
ScanDashDashStays(f) == [f EXCEPT !.done_with_flags = TRUE]

\* arg == "--"
ScanDashDash(f) == [f EXCEPT !.done_with_flags = TRUE, !.index = f.index + 1]

ScanHelp(cmd, f) == Raise(f, CmdHelpError(cmd.name, f.index, "", <<>>))

ScanVersion(f) == Raise(f, CmdVersionError)

\* IsRepeated with the test left out
IsRepeatedNever(spec_and_value) == FALSE

\* `if spec_and_value.is_set`
IsRepeated(spec_and_value) == spec_and_value.is_set

\* MutexTaken with the test left out
MutexTakenNever(mutex) == FALSE

\* `if mutex.satisfied is not None`
MutexTaken(mutex) == mutex.satisfied # <<>>

\* SwitchLiteral that takes every text but "false" for true
SwitchLiteralAnyText(argvalue) ==
    IF argvalue = <<"f", "a", "l", "s", "e">> THEN <<TRUE, PyBool(FALSE)>>
    ELSE <<TRUE, PyBool(TRUE)>>

\* the value a switch takes from the text after "=": <<ok, value>>
SwitchLiteral(argvalue) ==
    IF argvalue = <<"t", "r", "u", "e">> THEN <<TRUE, PyBool(TRUE)>>
    ELSE IF argvalue = <<"f", "a", "l", "s", "e">> THEN <<TRUE, PyBool(FALSE)>>
    ELSE <<FALSE, None>>

\* the flag branch; the locals keep what was assigned before a raise
ScanFlag(argv, f) ==
    LET tok == At(argv, f.index)
        has_eq == Contains(tok, "=")
        arg == IF has_eq THEN SplitOnce(tok, "=")[1] ELSE tok
        \* argvalue is only read when has_eq (it is None otherwise)
        argvalue == IF has_eq THEN SplitOnce(tok, "=")[2] ELSE <<>>
        k == FlagsGet(f, arg)
    IN  IF k = 0 THEN Raise(f, CmdError("unknown flag", arg, <<>>))
        ELSE IF IsRepeated(f.flags_to_parse[k])
        THEN Raise(f, CmdError("flag was repeated", arg, <<>>))
        ELSE
        LET m == FlagToMutex(f, arg)
        IN  IF m # 0 /\ MutexTaken(f.mutexes[m])
            THEN Raise(f, CmdError("mutually exclusive", arg, <<f.mutexes[m].satisfied, arg>>))
            ELSE
            LET f1 == IF m # 0 THEN [f EXCEPT !.mutexes[m].satisfied = arg] ELSE f
                f2 == [f1 EXCEPT !.flags_to_parse[k].is_set = TRUE,
                                 !.index = f.index + 1]
                spec == f.flags_to_parse[k].spec
            IN  CASE spec.n = "zero" ->
                        IF has_eq
                        THEN IF SwitchLiteral(argvalue)[1]
                             THEN [f2 EXCEPT !.flags_to_parse[k].value =
                                                SwitchLiteral(argvalue)[2]]
                             ELSE Raise(f2, CmdError("flag argument must be 'true' or 'false'",
                                                     arg, <<>>))
                        ELSE [f2 EXCEPT !.flags_to_parse[k].value = PyBool(TRUE)]
                  [] spec.n = "one" ->
                        IF ~has_eq
                        THEN LET c == _consume_one(argv, f2.index, spec.name)
                             IN  IF c.raised # NoException THEN Raise(f2, c.raised)
                                 ELSE [f2 EXCEPT !.index = c.index,
                                                 !.flags_to_parse[k].value = c.value]
                        ELSE [f2 EXCEPT !.flags_to_parse[k].value = PyStr(argvalue)]
                  [] spec.n = "many" ->
                        IF ~has_eq
                        THEN LET c == _consume_multi(argv, f2.index, spec.name, FALSE)
                             IN  IF c.raised # NoException THEN Raise(f2, c.raised)
                                 ELSE [f2 EXCEPT !.index = c.index,
                                                 !.flags_to_parse[k].value = c.value]
                        ELSE [f2 EXCEPT !.flags_to_parse[k].value =
                                            StrList(Split(argvalue, ","))]

\* the else branch: the token goes to the next positional
ScanPositional(argv, f) ==
    LET arg == At(argv, f.index)
        p == f.positionals_index + 1
    IN  IF f.positionals_index >= Len(f.positionals_to_parse)
        THEN Raise(f, CmdError("extra argument", arg, <<>>))
        ELSE
        LET spec == f.positionals_to_parse[p].spec
        IN  IF spec.n = "one"
            THEN [f EXCEPT !.index = f.index + 1,
                           !.positionals_to_parse[p].value = PyStr(arg),
                           !.positionals_index = f.positionals_index + 1]
            ELSE LET c == _consume_multi(argv, f.index, spec.name, f.done_with_flags)
                 IN  IF c.raised # NoException THEN Raise(f, c.raised)
                     ELSE [f EXCEPT !.index = c.index,
                                    !.positionals_to_parse[p].value = c.value,
                                    !.positionals_index = f.positionals_index + 1]

(***************************************************************************)
(* After the scan loop: the missing-argument checks and the converters.    *)
(***************************************************************************)
NamesOf(s_and_vs) == [k \in 1..Len(s_and_vs) |-> s_and_vs[k].spec.name]

\* MissingPositionals that leaves the `spec.required` filter out
MissingPositionalsAny(f) ==
    IF f.positionals_index < Len(f.positionals_to_parse)
    THEN NamesOf(From(f.positionals_to_parse, f.positionals_index))
    ELSE <<>>

\* the required positionals at positionals_to_parse[positionals_index:]
MissingPositionals(f) ==
    LET IsRequired(s_and_v) == s_and_v.spec.required
    IN  IF f.positionals_index < Len(f.positionals_to_parse)
        THEN NamesOf(SelectSeq(From(f.positionals_to_parse, f.positionals_index), IsRequired))
        ELSE <<>>

\* `spec.required and spec_and_value.value is NOTHING`
IsMissingFlag(s_and_v) == s_and_v.spec.required /\ s_and_v.value = NOTHING

\* MissingFlags that finds none
MissingFlagsNone(f) == <<>>

MissingFlags(f) == NamesOf(SelectSeq(f.flags_to_parse, IsMissingFlag))

\* IsUnsatisfied that does not look at what the scan marked
IsUnsatisfiedAlways(mutex_state) == ~mutex_state.optional

\* `mutex_state.satisfied is None and not mutex_state.optional`
IsUnsatisfied(mutex_state) == mutex_state.satisfied = <<>> /\ ~mutex_state.optional

UnsatisfiedMutexes(f) == SelectSeq(f.mutexes, IsUnsatisfied)

\* apply_converter(converter, x): <<exc, value>>, item by item for a list
RECURSIVE ConvertItems(_, _)
ConvertItems(conv, items) ==
    IF items = <<>> THEN <<"none", <<>>, None>>
    ELSE LET r == CallConverter(conv, items[1])
         IN  IF r[1] # "none" THEN <<r[1], <<>>, items[1]>>
             ELSE LET rest == ConvertItems(conv, Tail(items))
                  IN  IF rest[1] # "none" THEN rest
                      ELSE <<"none", <<r[2]>> \o rest[2], None>>

apply_converter(conv, x) ==
    IF x.t = "list"
    THEN LET r == ConvertItems(conv, x.l)
         IN  IF r[1] # "none" THEN <<r[1], r[3]>> ELSE <<"none", PyList(r[2])>>
    ELSE CallConverter(conv, x)

\* PositionalResult that tests is_set, which the scan sets for flags only
PositionalResultIfSet(s_and_v) ==
    IF ~s_and_v.is_set
    THEN <<"none", None>>
    ELSE apply_converter(s_and_v.spec.converter, s_and_v.value)

\* args[dest] for one positional: <<exc, value>>
PositionalResult(s_and_v) ==
    IF ~s_and_v.spec.required /\ s_and_v.value = NOTHING
    THEN <<"none", None>>
    ELSE apply_converter(s_and_v.spec.converter, s_and_v.value)

\* FlagResult that leaves the converter out
FlagResultUnconverted(s_and_v) == <<"none", s_and_v.value>>

\* kwargs[dest] for one flag: <<exc, value>>
FlagResult(s_and_v) ==
    IF s_and_v.value # None
    THEN apply_converter(s_and_v.spec.converter, s_and_v.value)
    ELSE <<"none", s_and_v.value>>

\* the two loops that fill args and kwargs, rs[k] being the result for item k;
\* the first converter that raises ends them
BindAll(s_and_vs, rs) ==
    LET bad == {k \in 1..Len(s_and_vs) : rs[k][1] # "none"}
        first == CHOOSE k \in bad : \A k2 \in bad : k <= k2
        bound(n) == [k \in 1..n |-> Bound(s_and_vs[k].spec.dest, rs[k][2])]
    IN  IF bad = {} THEN <<NoException, bound(Len(s_and_vs))>>
        ELSE <<ConverterError(rs[first][1], rs[first][2].s), bound(first - 1)>>

PostScan(f) ==
    LET missing == MissingPositionals(f)
        missing_flags == MissingFlags(f)
        unsatisfied == UnsatisfiedMutexes(f)
        a == BindAll(f.positionals_to_parse,
                     [k \in 1..Len(f.positionals_to_parse) |->
                         PositionalResult(f.positionals_to_parse[k])])
        kw == BindAll(f.flags_to_parse,
                      [k \in 1..Len(f.flags_to_parse) |-> FlagResult(f.flags_to_parse[k])])
    IN  IF Len(missing) > 0
        THEN Raise(f, CmdError("missing argument", <<>>, missing))
        ELSE IF Len(missing_flags) > 0
        THEN Raise(f, CmdError("missing mandatory flag", <<>>, sorted(missing_flags)))
        ELSE IF Len(unsatisfied) > 0
        THEN Raise(f, CmdError("exactly one of the following is required", <<>>,
                               unsatisfied[1].eligible_flags))
        ELSE IF a[1] # NoException THEN [Raise(f, a[1]) EXCEPT !.args = a[2]]
        ELSE IF kw[1] # NoException
        THEN [Raise(f, kw[1]) EXCEPT !.args = a[2], !.kwargs = kw[2]]
        ELSE [f EXCEPT !.args = a[2], !.kwargs = kw[2], !.returned = TRUE]

(***************************************************************************)
(* _parse_command as a function: the frame in which the call ends.         *)
(***************************************************************************)
\* one iteration of the loop, or the code after it when the loop is over
ScanStep(cmd, argv, f) ==
    IF f.index < Len(argv)
    THEN LET b == ScanBranch(argv, f)
         IN  CASE b = "dashdash" -> ScanDashDash(f)
               [] b = "help" -> ScanHelp(cmd, f)
               [] b = "version" -> ScanVersion(f)
               [] b = "flag" -> ScanFlag(argv, f)
               [] b = "positional" -> ScanPositional(argv, f)
    ELSE PostScan(f)

Ended(f) == f.returned \/ f.raised # NoException

RECURSIVE RunScan(_, _, _)
RunScan(cmd, argv, f) ==
    IF Ended(f) THEN f ELSE RunScan(cmd, argv, ScanStep(cmd, argv, f))

_parse_command(cmd, argv, i) ==
    IF cmd._passthrough # ""
    THEN PassthroughFrame(cmd, argv, i)
    ELSE RunScan(cmd, argv, InitFrame(cmd, i))

(***************************************************************************)
(* _parse_group: one level of Group resolution at argv[index].  Returns    *)
(* [raised, node, index]: the exception, or the child to recurse into.     *)
(***************************************************************************)
Resolved(e, node, i) == [raised |-> e, node |-> node, index |-> i]

_parse_group(group, argv, i) ==
    IF Len(group.subcmds) = 0
    THEN Resolved(CmdError("group is empty", <<>>, <<>>), "", i)
    ELSE IF i >= Len(argv)
    THEN Resolved(CmdHelpError(group.name, i, "too few arguments", <<>>), "", i)
    ELSE
    LET arg == At(argv, i)
    IN  IF _is_help_flag(arg) THEN Resolved(CmdHelpError(group.name, i, "", <<>>), "", i)
        ELSE IF _is_version_flag(arg) THEN Resolved(CmdVersionError, "", i)
        ELSE IF _is_flag(arg)
        THEN Resolved(CmdHelpError(group.name, i, "expected subcommand, got", arg), "", i)
        ELSE IF SubcmdsGet(group, arg) = ""
        THEN Resolved(CmdHelpError(group.name, i, "unknown subcommand", arg), "", i)
        ELSE Resolved(NoException, SubcmdsGet(group, arg), i + 1)

\* _parse as a function: the frame in which the call on node ends
RECURSIVE _parse(_, _, _)
_parse(node, argv, i) ==
    IF node \in CommandNames
    THEN _parse_command(CommandOf(node), argv, i)
    ELSE LET r == _parse_group(GroupOf(node), argv, i)
         IN  IF r.raised # NoException
             THEN [EmptyFrame EXCEPT !.index = i, !.raised = r.raised]
             ELSE _parse(r.node, argv, r.index)

(***************************************************************************)
(* The argument vectors of the model: argv[0] is the program name, the     *)
(* other tokens are drawn from the tokens that matter to the command.      *)
(***************************************************************************)
Prog == <<"p", "r", "o", "g">>

PoolPos == {<<"a">>, <<"-", "1">>, DashDash, <<"-", "h">>,
            <<"-", "v", "e", "r", "s", "i", "o", "n">>, <<"-", "z">>}

PoolEcho == {<<"a">>, DashDash, <<"-", "h">>, <<"-", "n">>,
             <<"-", "n", "=", "f", "a", "l", "s", "e">>, <<"-", "f">>,
             <<"-", "f", "=", "a">>, <<"-", "z">>}

PoolNum == {<<"7">>, <<"a">>, <<"-", "1">>, <<"-", "1", ".", "5">>, <<"-", "l">>,
            <<"-", "l", "=", "7">>, <<"-", "l", "=", "-", "z">>, <<"-">>}

PoolTags == {<<"a">>, <<"-", "1">>, <<"-", "t">>, <<"-", "t", "=", "a", ",", "b">>,
             DashDash, <<"-", "z">>, <<"-", "-", "h", "e", "l", "p">>}

PoolMutex == {<<"-", "s">>, <<"-", "s", "=", "t", "r", "u", "e">>,
              <<"-", "s", "=", "f", "a", "l", "s", "e">>, <<"-", "s", "=", "x">>,
              <<"-", "q">>, <<"-", "q", "=", "a">>, <<"a">>}

PoolPass == {<<"a">>, <<"-", "z">>, DashDash, <<"-", "?">>,
             <<"-", "-", "v", "e", "r", "s", "i", "o", "n">>, <<"-", "1">>}

PoolRoot == {<<"r">>, <<"g">>, <<"p">>, <<"a">>, <<"-", "h">>,
             <<"-", "v", "e", "r", "s", "i", "o", "n">>, <<"-", "z">>, DashDash}

PoolEmpty == {<<"a">>, <<"-", "h">>}

PoolLoud == {<<"a">>, <<"-", "z">>}

PoolConv == {<<"7">>, <<"a">>, <<"-", "k">>, <<"-", "k", "=", "7">>, <<"-", "m">>,
             <<"-", "m", "=", "1", ",", "2">>}

PoolRest == {<<"a">>, <<"b">>, DashDash, <<"-", "z">>}

PoolFull == {<<"a">>, <<"-", "z", "=", "1">>, <<"-", "b", "=", "1">>,
             <<"-", "s", "=", "f", "a", "l", "s", "e">>, <<"-", "q", "=", "a">>}

Pool(node) ==
    CASE node \in {"pos1", "pos2"} -> PoolPos
      [] node = "echo" -> PoolEcho
      [] node = "num" -> PoolNum
      [] node = "tags" -> PoolTags
      [] node \in {"mutex", "mutexopt"} -> PoolMutex
      [] node = "pass" -> PoolPass
      [] node = "root" -> PoolRoot
      [] node = "empty" -> PoolEmpty
      [] node = "loud" -> PoolLoud
      [] node = "conv" -> PoolConv
      [] node = "rest" -> PoolRest
      [] node = "full" -> PoolFull

\* what dispatch may be called on
Roots == CommandNames \cup {"root", "empty"}

\* the tuples of at most n items of S
UpTo(S, n) == UNION {[1..k -> S] : k \in 0..n}

Argvs(node) == {<<Prog>> \o rest : rest \in UpTo(Pool(node), MaxArgs)}

(***************************************************************************)
(* A Command under construction: the fields Command.__init__ sets and the  *)
(* declaring methods change.  _flags is the dict as the list of its        *)
(* values, _passthrough is <<>> for None.                                  *)
(***************************************************************************)
NewCommand ==
    [_names_taken |-> {}, _flags |-> <<>>, _positionals |-> <<>>, _passthrough |-> <<>>,
     _mutexes |-> <<>>]

\* no declaration was made yet
NoCall ==
    [op |-> "", name |-> <<>>, required |-> FALSE, n |-> "", raised |-> NoException,
     k |-> 0]

(***************************************************************************)
(* The handler, as dispatch sees it: a call that returns or raises.        *)
(* KgError is the domain error, ValueError stands for any other Exception, *)
(* KeyboardInterrupt for a BaseException that is not an Exception.         *)
(***************************************************************************)
HandlerOutcomes == {"return", "KgError", "ValueError", "KeyboardInterrupt"}

\* isinstance(e, Exception), for the clause `except Exception as e`
IsException(exc) == exc \in {"KgError", "ValueError"}

(***************************************************************************)
(* colors: ANSI colour codes around a str, and their removal.              *)
(***************************************************************************)
\* f"\033[{code}m{s}\033[0m"
_colored(s, code) ==
    <<ESC, "[">> \o IntToStr(code) \o <<"m">> \o s \o <<ESC, "[", "0", "m">>

yellow(s) == _colored(s, 33)

Capitals ==
    <<"A", "B", "C", "D", "E", "F", "G", "H", "I", "J", "K", "L", "M",
      "N", "O", "P", "Q", "R", "S", "T", "U", "V", "W", "X", "Y", "Z">>

\* the class [a-zA-Z] of _ansi_codes_re
IsLetter(c) ==
    \/ \E i \in 1..26 : Alphabet[i] = c
    \/ \E i \in 1..26 : Capitals[i] = c

\* the class [;?0-9] of _ansi_codes_re
IsCodeChar(c) == c \in Digits \/ c = ";" \/ c = "?"

\* where a match of _ansi_codes_re that starts at s[1] ends, 0 if there is
\* none: ESC, "[", the longest run of [;?0-9], then one letter
AnsiEnd(s) ==
    IF Len(s) < 3 \/ s[1] # ESC \/ s[2] # "[" THEN 0
    ELSE LET stop == CHOOSE j \in 3..(Len(s) + 1) :
                        /\ \A k \in 3..(j - 1) : IsCodeChar(s[k])
                        /\ (j <= Len(s) => ~IsCodeChar(s[j]))
         IN  IF stop <= Len(s) /\ IsLetter(s[stop]) THEN stop ELSE 0

\* _ansi_codes_re.sub("", s)
RECURSIVE strip(_)
strip(s) ==
    IF s = <<>> THEN <<>>
    ELSE IF AnsiEnd(s) > 0 THEN strip(SubSeq(s, AnsiEnd(s) + 1, Len(s)))
    ELSE <<s[1]>> \o strip(Tail(s))

(***************************************************************************)
(* tabular.Table: _widths, _rows (lists of str) and _n; _numformat is the  *)
(* default "{}".                                                           *)
(***************************************************************************)
NewTable == [_widths |-> <<>>, _rows |-> <<>>, _n |-> 0]

display_width(s) == Len(strip(s))

\* max(a, b)
max(a, b) == IF a >= b THEN a ELSE b

\* s.ljust(width + extra)
left_justify(s, width) ==
    LET extra == Len(s) - display_width(s)
        fill == width + extra - Len(s)
    IN  s \o [k \in 1..max(fill, 0) |-> " "]

\* _update_widths that keeps the widths of the last row
_update_widths_last(widths, items) == [i \in 1..Len(items) |-> display_width(items[i])]

\* self._update_widths(items)
_update_widths(widths, items) ==
    IF Len(widths) = 0 THEN [i \in 1..Len(items) |-> display_width(items[i])]
    ELSE [i \in 1..Len(widths) |->
            IF i <= Len(items) THEN max(display_width(items[i]), widths[i])
            ELSE widths[i]]

\* self._numformat.format(item), _numformat being "{}"
format(item) == str(item)[2].s

\* the str a row keeps for item: the int formatted, anything else through
\* str, and coloured when color is given ("" is None)
ItemAsStr(item, color) ==
    LET plain == IF item.t \in {"int", "bool"} THEN format(item) ELSE str(item)[2].s
    IN  IF color = "yellow" THEN yellow(plain) ELSE plain

\* self.row(items, color=color) on table self_: the message of the KgError it
\* raises ("" if it returns) and the table it leaves
row(self_, items, color) ==
    LET e == IF Len(self_._rows) = 0
             THEN IF items = <<>> THEN "first row cannot be empty" ELSE ""
             ELSE IF Len(items) # self_._n THEN "row wrong length" ELSE ""
        items_as_str == [i \in 1..Len(items) |-> ItemAsStr(items[i], color)]
    IN  IF e # "" THEN [raised |-> e, table |-> self_]
        ELSE [raised |-> "",
              table |-> [_widths |-> _update_widths(self_._widths, items_as_str),
                         _rows |-> Append(self_._rows, items_as_str),
                         _n |-> IF Len(self_._rows) = 0 THEN Len(items)
                                ELSE self_._n]]

\* self.header(items)
header(self_, items) == row(self_, items, "yellow")

\* self._get_sort_column(column): the message of the KgError and the index
\* (0-based) of the first header cell that is column once stripped
_get_sort_column(self_, column) ==
    IF Len(self_._rows) = 0 THEN [raised |-> "cannot sort an empty table", i |-> 0]
    ELSE LET head == [i \in 1..Len(self_._rows[1]) |-> strip(self_._rows[1][i])]
             found == {i \in 1..Len(head) : head[i] = column}
         IN  IF found = {} THEN [raised |-> "sort column not found", i |-> 0]
             ELSE [raised |-> "",
                   i |-> (CHOOSE i \in found : \A j \in found : i <= j) - 1]

\* sorted(rows, key=lambda row: row[column_index]): the first of the least
\* rows, then the others sorted
RECURSIVE sorted_rows(_, _)
sorted_rows(rows, column_index) ==
    IF rows = <<>> THEN <<>>
    ELSE LET i == CHOOSE i \in 1..Len(rows) :
                    \A j \in 1..Len(rows) :
                        /\ ~StrLess(At(rows[j], column_index), At(rows[i], column_index))
                        /\ (j < i => At(rows[j], column_index)
                                        # At(rows[i], column_index))
             rest == [k \in 1..(Len(rows) - 1) |->
                        IF k < i THEN rows[k] ELSE rows[k + 1]]
         IN  <<rows[i]>> \o sorted_rows(rest, column_index)

\* sort that sorts the header with the other rows
sort_with_header(self_, column) ==
    LET c == _get_sort_column(self_, column)
    IN  IF c.raised # "" THEN [raised |-> c.raised, table |-> self_]
        ELSE [raised |-> "",
              table |-> [self_ EXCEPT !._rows = sorted_rows(self_._rows, c.i)]]

\* self.sort(column)
sort(self_, column) ==
    LET c == _get_sort_column(self_, column)
    IN  IF c.raised # "" THEN [raised |-> c.raised, table |-> self_]
        ELSE [raised |-> "",
              table |-> [self_ EXCEPT
                           !._rows = <<self_._rows[1]>>
                                     \o sorted_rows(Tail(self_._rows), c.i)]]

\* what Table.row, Table.header or Table.sort was last called with: the
\* number of items or the column, and the message of the KgError it raised
NoTableCall == [op |-> "", n |-> 0, column |-> <<>>, raised |-> ""]

(***************************************************************************)
(* prelude.remove_prefix and prelude.remove_suffix.                        *)
(***************************************************************************)
\* s.endswith(p)
EndsWith(s, p) == Len(s) >= Len(p) /\ SubSeq(s, Len(s) - Len(p) + 1, Len(s)) = p

\* s[:stop] for a stop that may be negative
Until(s, stop) ==
    IF stop < 0 THEN SubSeq(s, 1, max(Len(s) + stop, 0))
    ELSE SubSeq(s, 1, IF stop < Len(s) THEN stop ELSE Len(s))

\* what a call left: the operation, whether it raised KgError, the str returned
Returned(op, value) == [op |-> op, raised |-> "", value |-> value]

Raised(op, msg) == [op |-> op, raised |-> msg, value |-> <<>>]

NoResult == [op |-> "", raised |-> "", value |-> <<>>]

remove_prefix(s, prefix, throw) ==
    IF StartsWith(s, prefix) THEN Returned("remove_prefix", From(s, Len(prefix)))
    ELSE IF throw THEN Raised("remove_prefix", "string does not have expected prefix")
    ELSE Returned("remove_prefix", s)

remove_suffix(s, suffix, throw) ==
    IF EndsWith(s, suffix) THEN Returned("remove_suffix", Until(s, 0 - Len(suffix)))
    ELSE IF throw THEN Raised("remove_suffix", "string does not have expected suffix")
    ELSE Returned("remove_suffix", s)

(***************************************************************************)
(* State.                                                                  *)
(*   root, argv, bail_on_error: the arguments of dispatch                  *)
(*   cmd_or_group: the node _parse is at                                   *)
(*   index .. kwargs: the locals of _parse_command (see EmptyFrame)        *)
(*   raised: the exception in flight, or the one that ended the call       *)
(*   pc: "dispatch" before the call; "_parse" in _parse; "scan" in the     *)
(*       loop of _parse_command; "parsed" once parse has returned;         *)
(*       "invoke" before the handler is called;                            *)
(*       "raised" while an exception leaves _parse; then how dispatch      *)
(*       ended: "return", "exit" (sys.exit) or "raise" (to the caller)     *)
(*   exit_code: the argument of sys.exit, -1 if it was not called          *)
(*   stdout, stderr: what was printed                                      *)
(*   handler_calls: how many times the handler was invoked                 *)
(*   handler_exc: the type of the exception the handler raised, "none" if  *)
(*       it returned or was not invoked                                    *)
(*   self: the Command that _switch, _arg, _flag and _add_passthrough are  *)
(*       called on; call: the last of these calls and what it raised       *)
(***************************************************************************)
VARIABLES root, argv, bail_on_error, cmd_or_group, index, done_with_flags,
          positionals_index, flags_to_parse, positionals_to_parse, mutexes,
          raised, args, kwargs, pc, exit_code, stdout, stderr, handler_calls,
          handler_exc, self, call, sig, param_index, log_init, env_log_level,
          log_init_calls, log_exc, table, table_call, string, affix, or_throw,
          result

vars == <<root, argv, bail_on_error, cmd_or_group, index, done_with_flags,
          positionals_index, flags_to_parse, positionals_to_parse, mutexes,
          raised, args, kwargs, pc, exit_code, stdout, stderr, handler_calls,
          handler_exc, self, call, sig, param_index, log_init, env_log_level,
          log_init_calls, log_exc, table, table_call, string, affix, or_throw,
          result>>

inputs == <<root, argv>>

\* whether dispatch was given a log_init, the KG_LOG_LEVEL it read, the
\* levels log_init was called with, what the log level block raised
log_state == <<log_init, env_log_level, log_init_calls, log_exc>>

output == <<exit_code, stdout, stderr, handler_calls, handler_exc>>

\* the parameters of the function given to from_function, and how many of
\* them its loop has gone through
signature == <<sig, param_index>>

\* the Command under construction and the last declaration made on it
construction == <<self, call, signature>>

\* the Table and the last call on it
tabular == <<table, table_call>>

\* the arguments of remove_prefix or remove_suffix and what the call left
affixing == <<string, affix, or_throw, result>>

\* the state of the packages that command does not use
other_packages == <<tabular, affixing>>

\* no Table call and no prelude call was made
OtherPackagesIdle ==
    /\ table = NewTable
    /\ table_call = NoTableCall
    /\ string = <<>>
    /\ affix = <<>>
    /\ or_throw = FALSE
    /\ result = NoResult

\* the locals as a frame
Frame ==
    [index |-> index, done_with_flags |-> done_with_flags,
     positionals_index |-> positionals_index, flags_to_parse |-> flags_to_parse,
     positionals_to_parse |-> positionals_to_parse, mutexes |-> mutexes,
     raised |-> raised, args |-> args, kwargs |-> kwargs, returned |-> pc = "parsed"]

\* the locals become those of frame f, and control goes where f says
SetFrame(f) ==
    /\ index' = f.index
    /\ done_with_flags' = f.done_with_flags
    /\ positionals_index' = f.positionals_index
    /\ flags_to_parse' = f.flags_to_parse
    /\ positionals_to_parse' = f.positionals_to_parse
    /\ mutexes' = f.mutexes
    /\ raised' = f.raised
    /\ args' = f.args
    /\ kwargs' = f.kwargs
    /\ pc' = IF f.raised # NoException THEN "raised"
             ELSE IF f.returned THEN "parsed" ELSE "scan"

Init ==
    /\ root \in Roots
    /\ argv \in Argvs(root)
    /\ bail_on_error = TRUE
    /\ cmd_or_group = root
    /\ index = 0
    /\ done_with_flags = FALSE
    /\ positionals_index = 0
    /\ flags_to_parse = <<>>
    /\ positionals_to_parse = <<>>
    /\ mutexes = <<>>
    /\ raised = NoException
    /\ args = <<>>
    /\ kwargs = <<>>
    /\ pc = "dispatch"
    /\ exit_code = -1
    /\ stdout = <<>>
    /\ stderr = <<>>
    /\ handler_calls = 0
    /\ handler_exc = "none"
    /\ self = NewCommand
    /\ call = NoCall
    /\ sig = <<>>
    /\ param_index = 0
    /\ log_init = FALSE
    /\ env_log_level = <<>>
    /\ log_init_calls = <<>>
    /\ log_exc = "none"
    /\ OtherPackagesIdle

(***************************************************************************)
(* Actions.                                                                *)
(***************************************************************************)
Printed(text, node, program) == [text |-> text, of |-> node, program |-> program]

\* dispatch(root, argv=argv, bail_on_error=b, log_init=...), li telling
\* whether log_init is given, calls parse, which calls
\* _parse(cmd_or_group, argv, 1)
Dispatch(b, li) ==
    /\ pc = "dispatch"
    /\ bail_on_error' = b
    /\ log_init' = li
    /\ index' = 1
    /\ pc' = "_parse"
    /\ UNCHANGED <<other_packages, construction, env_log_level, log_init_calls, log_exc, inputs, output, cmd_or_group, done_with_flags, positionals_index,
                   flags_to_parse, positionals_to_parse, mutexes, raised, args, kwargs>>

\* _parse on a Group: _parse_group, which raises or recurses into the child
ParseGroup ==
    /\ pc = "_parse"
    /\ cmd_or_group \in GroupNames
    /\ LET r == _parse_group(GroupOf(cmd_or_group), argv, index)
       IN  /\ raised' = r.raised
           /\ index' = r.index
           /\ cmd_or_group' = IF r.raised = NoException THEN r.node ELSE cmd_or_group
           /\ pc' = IF r.raised = NoException THEN "_parse" ELSE "raised"
    /\ UNCHANGED <<other_packages, construction, log_state, inputs, output, bail_on_error, done_with_flags, positionals_index,
                   flags_to_parse, positionals_to_parse, mutexes, args, kwargs>>

\* _parse on a Command: _parse_command up to its scan loop (a passthrough
\* command returns before it)
ParseCommand ==
    /\ pc = "_parse"
    /\ cmd_or_group \in CommandNames
    /\ LET cmd == CommandOf(cmd_or_group)
       IN  IF cmd._passthrough # ""
           THEN SetFrame(PassthroughFrame(cmd, argv, index))
           ELSE SetFrame(InitFrame(cmd, index))
    /\ UNCHANGED <<other_packages, construction, log_state, inputs, output, bail_on_error, cmd_or_group>>

\* an iteration of the scan loop that takes branch b
Iteration(b) ==
    /\ pc = "scan"
    /\ index < Len(argv)
    /\ ScanBranch(argv, Frame) = b
    /\ UNCHANGED <<other_packages, construction, log_state, inputs, output, bail_on_error, cmd_or_group>>

LoopDashDash == Iteration("dashdash") /\ SetFrame(ScanDashDash(Frame))

LoopHelp == Iteration("help") /\ SetFrame(ScanHelp(CommandOf(cmd_or_group), Frame))

LoopVersion == Iteration("version") /\ SetFrame(ScanVersion(Frame))

LoopFlag == Iteration("flag") /\ SetFrame(ScanFlag(argv, Frame))

LoopPositional == Iteration("positional") /\ SetFrame(ScanPositional(argv, Frame))

\* the loop is over: the checks and the converters, then the return
AfterLoop ==
    /\ pc = "scan"
    /\ index >= Len(argv)
    /\ SetFrame(PostScan(Frame))
    /\ UNCHANGED <<other_packages, construction, log_state, inputs, output, bail_on_error, cmd_or_group>>

\* ExitsOnError that raises again whatever bail_on_error is
ExitsOnErrorNever(b) == FALSE

\* `if bail_on_error` in the except clause of parse
ExitsOnError(b) == b

\* HelpHasMessage that takes every help signal for a plain one
HelpHasMessageNever(e) == FALSE

\* `if e.message` in the except clause of dispatch
HelpHasMessage(e) == e.message # ""

\* `except CmdError` of parse: print and sys.exit(1), or raise again; dispatch
\* has no handler for either, so both leave dispatch
ParseExceptCmdError ==
    /\ pc = "raised"
    /\ raised.exc = "CmdError"
    /\ IF ExitsOnError(bail_on_error)
       THEN /\ stderr' = Append(stderr, Printed("Command-line error:", "", <<>>))
            /\ exit_code' = 1
            /\ pc' = "exit"
       ELSE /\ pc' = "raise"
            /\ UNCHANGED <<stderr, exit_code>>
    /\ UNCHANGED <<other_packages, construction, log_state, inputs, bail_on_error, cmd_or_group, index, done_with_flags,
                   positionals_index, flags_to_parse, positionals_to_parse, mutexes,
                   raised, args, kwargs, stdout, handler_calls, handler_exc>>

\* `except CmdHelpError` of dispatch
DispatchExceptHelp ==
    /\ pc = "raised"
    /\ raised.exc = "CmdHelpError"
    /\ LET help == Printed("help", raised.cmd_or_group, SubSeq(argv, 1, raised.index))
       IN  IF HelpHasMessage(raised)
           THEN /\ stdout' = stdout \o <<help, Printed("", "", <<>>)>>
                /\ stderr' = Append(stderr, Printed("Error:", "", <<>>))
                /\ exit_code' = 1
                /\ pc' = "exit"
           ELSE /\ stdout' = Append(stdout, help)
                /\ pc' = "return"
                /\ UNCHANGED <<stderr, exit_code>>
    /\ UNCHANGED <<other_packages, construction, log_state, inputs, bail_on_error, cmd_or_group, index, done_with_flags,
                   positionals_index, flags_to_parse, positionals_to_parse, mutexes,
                   raised, args, kwargs, handler_calls, handler_exc>>

\* `except CmdVersionError` of dispatch
DispatchExceptVersion ==
    /\ pc = "raised"
    /\ raised.exc = "CmdVersionError"
    /\ stdout' = Append(stdout, Printed("version", "", <<>>))
    /\ pc' = "return"
    /\ UNCHANGED <<other_packages, construction, log_state, inputs, bail_on_error, cmd_or_group, index, done_with_flags,
                   positionals_index, flags_to_parse, positionals_to_parse, mutexes,
                   raised, args, kwargs, stderr, exit_code, handler_calls,
                   handler_exc>>

\* any other exception has no handler in parse or dispatch
DispatchUncaught ==
    /\ pc = "raised"
    /\ raised.exc \notin {"CmdError", "CmdHelpError", "CmdVersionError"}
    /\ pc' = "raise"
    /\ UNCHANGED <<other_packages, construction, log_state, inputs, output, bail_on_error, cmd_or_group, index, done_with_flags,
                   positionals_index, flags_to_parse, positionals_to_parse, mutexes,
                   raised, args, kwargs>>

\* CatchesHandlerError that does not look at less_logging
CatchesHandlerErrorAlways(exc, less_logging) == exc = "KgError"

\* `if isinstance(e, KgError) and parse_result.less_logging`
CatchesHandlerError(exc, less_logging) == exc = "KgError" /\ less_logging

\* what the except clause prints with eprint before sys.exit(1)
FailureReport ==
    <<Printed("traceback", "", <<>>), Printed("", "", <<>>),
      Printed("The command failed due to a Python exception.", "", <<>>),
      Printed("", "", <<>>), Printed("to_human_str", "", <<>>), Printed("", "", <<>>)>>

\* str.lower on the letters of the model
Uppercase == <<"A", "B", "D", "E", "F", "G", "I", "N", "O", "R", "U", "W">>

Lowercase == <<"a", "b", "d", "e", "f", "g", "i", "n", "o", "r", "u", "w">>

lower(s) ==
    [i \in 1..Len(s) |->
        IF \E k \in 1..Len(Uppercase) : Uppercase[k] = s[i]
        THEN Lowercase[CHOOSE k \in 1..Len(Uppercase) : Uppercase[k] = s[i]]
        ELSE s[i]]

\* the values of KG_LOG_LEVEL; <<>> is the variable unset or empty
EnvLogLevels ==
    {<<>>, <<"e", "r", "r", "o", "r">>, <<"w", "a", "r", "n">>,
     <<"w", "a", "r", "n", "i", "n", "g">>, <<"i", "n", "f", "o">>,
     <<"d", "e", "b", "u", "g">>, <<"W", "A", "R", "N">>, <<"D", "e", "b", "u", "g">>,
     <<"w", "a", "r", "n", " ">>, <<"0">>}

\* loglevel that takes no override
loglevel_default(env, less_logging) == IF less_logging THEN "WARN" ELSE "INFO"

\* the loglevel the block computes from KG_LOG_LEVEL.lower(), "" when it
\* raises KgError("unknown log level")
loglevel(env, less_logging) ==
    IF env # <<>>
    THEN CASE env = <<"e", "r", "r", "o", "r">> -> "ERROR"
           [] env \in {<<"w", "a", "r", "n">>, <<"w", "a", "r", "n", "i", "n", "g">>} -> "WARN"
           [] env = <<"i", "n", "f", "o">> -> "INFO"
           [] env = <<"d", "e", "b", "u", "g">> -> "DEBUG"
           [] OTHER -> ""
    ELSE IF less_logging THEN "WARN" ELSE "INFO"

\* the else branch of dispatch up to the handler: with a log_init, the level
\* is computed from KG_LOG_LEVEL, read as env, and log_init is called with it
\* (log_init returns)
DispatchLogInit(env) ==
    /\ pc = "parsed"
    /\ IF log_init
       THEN LET level == loglevel(lower(env), CommandOf(cmd_or_group).less_logging)
            IN  /\ env_log_level' = env
                /\ IF level = ""
                   THEN /\ log_exc' = "KgError"
                        /\ pc' = "raise"
                        /\ UNCHANGED log_init_calls
                   ELSE /\ log_init_calls' = Append(log_init_calls, level)
                        /\ pc' = "invoke"
                        /\ UNCHANGED log_exc
       ELSE /\ pc' = "invoke"
            /\ UNCHANGED <<env_log_level, log_init_calls, log_exc>>
    /\ UNCHANGED <<other_packages, construction, inputs, output, log_init, bail_on_error, cmd_or_group,
                   index, done_with_flags, positionals_index, flags_to_parse,
                   positionals_to_parse, mutexes, raised, args, kwargs>>

\* the handler is invoked and returns, or raises h; parse_result.less_logging
\* is cmd.less_logging
DispatchInvoke(h) ==
    /\ pc = "invoke"
    /\ handler_calls' = handler_calls + 1
    /\ handler_exc' = IF h = "return" THEN "none" ELSE h
    /\ IF h = "return"
       THEN /\ pc' = "return"
            /\ UNCHANGED <<stderr, exit_code>>
       ELSE IF IsException(h)
               /\ CatchesHandlerError(h, CommandOf(cmd_or_group).less_logging)
       THEN /\ stderr' = stderr \o FailureReport
            /\ exit_code' = 1
            /\ pc' = "exit"
       ELSE /\ pc' = "raise"
            /\ UNCHANGED <<stderr, exit_code>>
    /\ UNCHANGED <<other_packages, construction, log_state, inputs, bail_on_error, cmd_or_group, index,
                   done_with_flags, positionals_index, flags_to_parse,
                   positionals_to_parse, mutexes, raised, args, kwargs, stdout>>

Next ==
    \/ \E b, li \in BOOLEAN : Dispatch(b, li)
    \/ ParseGroup
    \/ ParseCommand
    \/ LoopDashDash
    \/ LoopHelp
    \/ LoopVersion
    \/ LoopFlag
    \/ LoopPositional
    \/ AfterLoop
    \/ ParseExceptCmdError
    \/ DispatchExceptHelp
    \/ DispatchExceptVersion
    \/ DispatchUncaught
    \/ \E env \in EnvLogLevels : DispatchLogInit(env)
    \/ \E h \in HandlerOutcomes : DispatchInvoke(h)

Spec == Init /\ [][Next]_vars

(***************************************************************************)
(* The construction of a Command: the calls of _switch, _arg, _flag and    *)
(* _add_passthrough that Command.from_function makes, one per parameter.   *)
(* A call that raises leaves the Command to its caller, who may go on.     *)
(***************************************************************************)
\* the names of the declarations
Names == {<<"a">>, <<"b">>, <<"-", "x">>, <<"-", "y">>, <<"-", "h">>}

\* have_optional_positionals of _check
have_optional_positionals(cmd) ==
    \E k \in 1..Len(cmd._positionals) : ~cmd._positionals[k].required

\* have_list_positional that never sees one
have_list_positional_never(cmd) == FALSE

\* have_list_positional of _check
have_list_positional(cmd) ==
    \E k \in 1..Len(cmd._positionals) : cmd._positionals[k].n = "many"

\* IsPassthrough that never sees the passthrough
IsPassthroughNever(cmd) == FALSE

\* `self._passthrough is not None`
IsPassthrough(cmd) == cmd._passthrough # <<>>

\* Command._check: the CmdError it raises, NoException if it returns
_check(cmd, name, is_flag, required) ==
    IF IsPassthrough(cmd)
    THEN CmdError("command was already specified as passthrough", <<>>, <<>>)
    ELSE IF name \in cmd._names_taken
    THEN CmdError("duplicate argument name", name, <<>>)
    ELSE IF _is_help_flag(name) \/ _is_version_flag(name)
    THEN CmdError("flag name is reserved", name, <<>>)
    ELSE IF is_flag /\ ~_is_flag(name)
    THEN CmdError("flag name is not valid (does it start with a hyphen?)", name, <<>>)
    ELSE IF ~is_flag /\ StartsWith(name, <<"-">>)
    THEN CmdError("positional name must not start with hyphen", name, <<>>)
    ELSE IF ~is_flag /\ required /\ have_optional_positionals(cmd)
    THEN CmdError("required positional argument cannot follow optional", name, <<>>)
    ELSE IF ~is_flag /\ have_list_positional(cmd)
    THEN CmdError("list positional argument must be last", <<>>, <<>>)
    ELSE NoException

\* `self._names_taken.add(name)`, the last line of _check
Checked(cmd, name) == [cmd EXCEPT !._names_taken = @ \cup {name}]

\* the check of _add_passthrough
_add_passthrough_check(cmd) ==
    IF Len(cmd._flags) > 0 \/ Len(cmd._positionals) > 0
    THEN CmdError("command with flags or positionals cannot be marked as passthrough",
                  <<>>, <<>>)
    ELSE NoException

\* everything but the Command under construction
dispatching ==
    <<root, argv, bail_on_error, cmd_or_group, index, done_with_flags,
      positionals_index, flags_to_parse, positionals_to_parse, mutexes, raised,
      args, kwargs, pc, exit_code, stdout, stderr, handler_calls, handler_exc,
      log_state, other_packages>>

\* a call that raised e, or returned (NoException) leaving the Command as cmd
Called(op, name, required, n, e, cmd) ==
    /\ pc = "define"
    /\ call.k < MaxCalls
    /\ self' = IF e = NoException THEN cmd ELSE self
    /\ call' = [op |-> op, name |-> name, required |-> required, n |-> n,
                raised |-> e, k |-> call.k + 1]
    /\ UNCHANGED <<dispatching, signature>>

\* self._switch(name)
Call_switch(name) ==
    Called("_switch", name, FALSE, "zero", _check(self, name, TRUE, FALSE),
           [Checked(self, name) EXCEPT !._flags = Append(@, _switch(name, name))])

\* self._arg(name, required=required, n=n)
Call_arg(name, required, n) ==
    Called("_arg", name, required, n, _check(self, name, FALSE, required),
           [Checked(self, name) EXCEPT
               !._positionals = Append(@, _arg(name, required, n, "None", name))])

\* self._flag(name, n=n, required=required)
Call_flag(name, n, required) ==
    Called("_flag", name, required, n, _check(self, name, TRUE, required),
           [Checked(self, name) EXCEPT
               !._flags = Append(@, _flag(name, n, required, NOTHING, "None", name))])

\* self._add_passthrough(name)
Call_add_passthrough(name) ==
    Called("_add_passthrough", name, FALSE, "many", _add_passthrough_check(self),
           [self EXCEPT !._passthrough = name])

\* a new Command, no dispatch under way
InitConstruction ==
    /\ self = NewCommand
    /\ call = NoCall
    /\ sig = <<>>
    /\ param_index = 0
    /\ log_init = FALSE
    /\ env_log_level = <<>>
    /\ log_init_calls = <<>>
    /\ log_exc = "none"
    /\ OtherPackagesIdle
    /\ root = "pos1"
    /\ argv = <<Prog>>
    /\ bail_on_error = TRUE
    /\ cmd_or_group = root
    /\ index = 0
    /\ done_with_flags = FALSE
    /\ positionals_index = 0
    /\ flags_to_parse = <<>>
    /\ positionals_to_parse = <<>>
    /\ mutexes = <<>>
    /\ raised = NoException
    /\ args = <<>>
    /\ kwargs = <<>>
    /\ pc = "define"
    /\ exit_code = -1
    /\ stdout = <<>>
    /\ stderr = <<>>
    /\ handler_calls = 0
    /\ handler_exc = "none"

NextConstruction ==
    \/ \E name \in Names : Call_switch(name)
    \/ \E name \in Names, required \in BOOLEAN, n \in {"one", "many"} :
          Call_arg(name, required, n)
    \/ \E name \in Names, n \in {"one", "many"}, required \in BOOLEAN :
          Call_flag(name, n, required)
    \/ \E name \in Names : Call_add_passthrough(name)

SpecConstruction == InitConstruction /\ [][NextConstruction]_vars

(***************************************************************************)
(* Command.from_function: one TypeAnnotation.from_param and one            *)
(* declaration per parameter of the function, then _check_all.  sig holds  *)
(* the parameters the loop has gone through, each chosen as the loop       *)
(* reaches it; the function has at most MaxParams of them.  A              *)
(* parameter is its name, its kind, the base type of its annotation,       *)
(* whether the annotation is Optional[...], its default (NOTHING when it   *)
(* has none) and the mutex_id of its Extra(mutex=...) ("" when it has      *)
(* none); the model has no list types and no other Extra option.           *)
(***************************************************************************)
MaxParams == 3

Param(name, kind, base_type, optional, default, mutex) ==
    [name |-> name, kind |-> kind, base_type |-> base_type, optional |-> optional,
     default |-> default, mutex |-> mutex]

\* the parameters are named by their place, as Python keeps names distinct
ParamNames == <<(<<"a">>), (<<"b">>), (<<"c">>), (<<"d">>)>>

Kinds == {"POSITIONAL_OR_KEYWORD", "KEYWORD_ONLY"}

BaseTypes == {"bool", "str"}

\* mutex_m = Mutex(), mutex_n = Mutex(optional=True)
MutexIds == {"m", "n"}

MutexOptional(mutex_id) == mutex_id = "n"

\* a default that a parameter of the base type may be given
ADefault(base_type) == IF base_type = "bool" THEN PyBool(TRUE) ELSE PyStr(<<"d">>)

Shapes == Kinds \X BaseTypes \X BOOLEAN \X BOOLEAN \X ({""} \cup MutexIds)

Shaped(name, sh) ==
    Param(name, sh[1], sh[2], sh[3], IF sh[4] THEN ADefault(sh[2]) ELSE NOTHING, sh[5])

\* what Python accepts as a parameter list: no positional parameter after a
\* keyword-only one, none without a default after one with a default
IsSignature(params) ==
    \A i, j \in 1..Len(params) :
       i < j /\ params[j].kind = "POSITIONAL_OR_KEYWORD" =>
          /\ params[i].kind = "POSITIONAL_OR_KEYWORD"
          /\ params[i].default # NOTHING => params[j].default # NOTHING

\* what from_param raises (NoException if it returns) and the fields of the
\* TypeAnnotation it returns
TypeAnnotation(e, base_type, is_optional, default, mutex, arg_type) ==
    [raised |-> e, base_type |-> base_type, is_optional |-> is_optional,
     default |-> default, mutex |-> mutex, arg_type |-> arg_type]

from_param(param) ==
    LET is_optional == param.optional \/ param.default # NOTHING
        arg_type == IF param.base_type = "bool" THEN "switch"
                    ELSE IF param.kind = "KEYWORD_ONLY" THEN "flag" ELSE "arg"
        e == IF param.base_type = "bool" /\ param.optional
             THEN CmdError("use just bool instead of Optional[bool]", <<>>, <<>>)
             ELSE IF arg_type = "arg" /\ param.default # NOTHING
             THEN CmdError("positional arguments cannot have a default value", <<>>, <<>>)
             ELSE IF arg_type = "arg" /\ param.mutex # ""
             THEN CmdError("extra.mutex is invalid for positional arguments", <<>>, <<>>)
             ELSE IF arg_type # "arg" /\ param.mutex # ""
                     /\ ~(arg_type = "switch" \/ is_optional)
             THEN CmdError("mutex flag must be optional", <<>>, <<>>)
             ELSE IF arg_type # "arg" /\ param.mutex # "" /\ param.default # NOTHING
             THEN CmdError("mutex flag cannot have a default", <<>>, <<>>)
             ELSE NoException
    IN  TypeAnnotation(e, param.base_type, is_optional, param.default, param.mutex,
                       arg_type)

\* "-" + s.replace("_", "-")
_python_to_flag(name) ==
    <<"-">> \o [i \in 1..Len(name) |-> IF name[i] = "_" THEN "-" ELSE name[i]]

\* the name the parameter is declared under
FlagNameFor(param, arg_type) ==
    IF arg_type = "arg" THEN param.name ELSE _python_to_flag(param.name)

\* the `if extra.mutex is not None` block: the flag name joins its mutex
AddMutex(cmd, mutex_id, flag_name) ==
    IF \E k \in 1..Len(cmd._mutexes) : cmd._mutexes[k].mutex_id = mutex_id
    THEN [cmd EXCEPT !._mutexes =
             [k \in 1..Len(@) |->
                 IF @[k].mutex_id = mutex_id
                 THEN [@[k] EXCEPT !.flags = Append(@, flag_name)]
                 ELSE @[k]]]
    ELSE [cmd EXCEPT !._mutexes =
             Append(@, Mutex(mutex_id, MutexOptional(mutex_id), <<flag_name>>))]

\* the body of the loop after from_param: <<what it raises, the Command>>
Declared(cmd, param, ta) ==
    LET name == FlagNameFor(param, ta.arg_type)
        required == ta.arg_type # "switch" /\ ~ta.is_optional
        e == _check(cmd, name, ta.arg_type # "arg", required)
        spec == CASE ta.arg_type = "switch" -> _switch(name, param.name)
                  [] ta.arg_type = "flag" ->
                        _flag(name, "one", required, ta.default, ta.base_type, param.name)
                  [] OTHER -> _arg(name, required, "one", ta.base_type, param.name)
        declared == IF ta.arg_type = "arg"
                    THEN [Checked(cmd, name) EXCEPT !._positionals = Append(@, spec)]
                    ELSE [Checked(cmd, name) EXCEPT !._flags = Append(@, spec)]
    IN  IF e # NoException THEN <<e, cmd>>
        ELSE IF ta.mutex # "" THEN <<NoException, AddMutex(declared, ta.mutex, name)>>
        ELSE <<NoException, declared>>

\* _check_all that accepts every mutex
_check_all_never(cmd) == NoException

\* Command._check_all: the CmdError it raises, NoException if it returns
_check_all(cmd) ==
    LET short == {k \in 1..Len(cmd._mutexes) : Len(cmd._mutexes[k].flags) < 2}
        first == CHOOSE k \in short : \A k2 \in short : k <= k2
    IN  IF short = {} THEN NoException
        ELSE CmdError("mutex must appear on at least two flags", <<>>,
                      cmd._mutexes[first].flags)

\* what from_function leaves alone
not_from_function ==
    <<root, argv, bail_on_error, cmd_or_group, index, done_with_flags,
      positionals_index, flags_to_parse, positionals_to_parse, mutexes, args, kwargs,
      exit_code, stdout, stderr, handler_calls, handler_exc, call, log_state,
      other_packages>>

\* one pass of `for name, param in sig.parameters.items()`, the next
\* parameter being of shape sh
FromFunctionParam(sh) ==
    /\ pc = "from_function"
    /\ param_index < MaxParams
    /\ LET param == Shaped(ParamNames[param_index + 1], sh)
           ta == from_param(param)
           d == IF ta.raised # NoException THEN <<ta.raised, self>>
                ELSE Declared(self, param, ta)
       IN  /\ IsSignature(Append(sig, param))
           /\ sig' = Append(sig, param)
           /\ raised' = d[1]
           /\ self' = d[2]
           /\ pc' = IF d[1] = NoException THEN "from_function" ELSE "raised"
    /\ param_index' = param_index + 1
    /\ UNCHANGED not_from_function

\* the parameters are over: `cmd._check_all()` and `return cmd`
FromFunctionReturn ==
    /\ pc = "from_function"
    /\ raised' = _check_all(self)
    /\ pc' = IF _check_all(self) = NoException THEN "returned" ELSE "raised"
    /\ UNCHANGED <<not_from_function, self, signature>>

InitFromFunction ==
    /\ self = NewCommand
    /\ call = NoCall
    /\ sig = <<>>
    /\ param_index = 0
    /\ log_init = FALSE
    /\ env_log_level = <<>>
    /\ log_init_calls = <<>>
    /\ log_exc = "none"
    /\ OtherPackagesIdle
    /\ root = "pos1"
    /\ argv = <<Prog>>
    /\ bail_on_error = TRUE
    /\ cmd_or_group = root
    /\ index = 0
    /\ done_with_flags = FALSE
    /\ positionals_index = 0
    /\ flags_to_parse = <<>>
    /\ positionals_to_parse = <<>>
    /\ mutexes = <<>>
    /\ raised = NoException
    /\ args = <<>>
    /\ kwargs = <<>>
    /\ pc = "from_function"
    /\ exit_code = -1
    /\ stdout = <<>>
    /\ stderr = <<>>
    /\ handler_calls = 0
    /\ handler_exc = "none"

NextFromFunction == (\E sh \in Shapes : FromFunctionParam(sh)) \/ FromFunctionReturn

SpecFromFunction == InitFromFunction /\ [][NextFromFunction]_vars

(***************************************************************************)
(* The other packages: tabular.Table under row, header and sort calls, and *)
(* the affix removers of prelude. No dispatch and no Command construction  *)
(* is under way.                                                           *)
(***************************************************************************)
\* everything of command
commands ==
    <<inputs, bail_on_error, cmd_or_group, index, done_with_flags, positionals_index,
      flags_to_parse, positionals_to_parse, mutexes, raised, args, kwargs, pc, output,
      construction, log_state>>

CommandIdle ==
    /\ self = NewCommand
    /\ call = NoCall
    /\ sig = <<>>
    /\ param_index = 0
    /\ log_init = FALSE
    /\ env_log_level = <<>>
    /\ log_init_calls = <<>>
    /\ log_exc = "none"
    /\ root = "pos1"
    /\ argv = <<Prog>>
    /\ bail_on_error = TRUE
    /\ cmd_or_group = root
    /\ index = 0
    /\ done_with_flags = FALSE
    /\ positionals_index = 0
    /\ flags_to_parse = <<>>
    /\ positionals_to_parse = <<>>
    /\ mutexes = <<>>
    /\ raised = NoException
    /\ args = <<>>
    /\ kwargs = <<>>
    /\ exit_code = -1
    /\ stdout = <<>>
    /\ stderr = <<>>
    /\ handler_calls = 0
    /\ handler_exc = "none"

\* how many rows a Table is given, and how many items a row has
MaxRows == 3

MaxCols == 2

\* the items of rows: two str and an int, of display widths 1 and 2
Items == {PyStr(<<"b">>), PyStr(<<"a", "a">>), PyInt(10)}

\* the column names given to sort
Columns == {<<"b">>, <<"a", "a">>, <<"1", "0">>, <<"z">>}

TableCalled(op, n, column, r) ==
    /\ pc = "table"
    /\ table' = r.table
    /\ table_call' = [op |-> op, n |-> n, column |-> column, raised |-> r.raised]
    /\ UNCHANGED <<commands, affixing>>

\* table.row(items)
TableRow(items) ==
    /\ Len(table._rows) < MaxRows
    /\ TableCalled("row", Len(items), <<>>, row(table, items, ""))

\* table.header(items)
TableHeader(items) ==
    /\ Len(table._rows) < MaxRows
    /\ TableCalled("header", Len(items), <<>>, header(table, items))

\* table.sort(column)
TableSort(column) == TableCalled("sort", 0, column, sort(table, column))

\* table = Table()
InitTable ==
    /\ CommandIdle
    /\ pc = "table"
    /\ OtherPackagesIdle

NextTable ==
    \/ \E items \in UpTo(Items, MaxCols) : TableRow(items)
    \/ \E items \in UpTo(Items, MaxCols) : TableHeader(items)
    \/ \E column \in Columns : TableSort(column)

SpecTable == InitTable /\ [][NextTable]_vars

\* how long the str and the affix given to remove_prefix and remove_suffix are
MaxLen == 3

Strings == UpTo({"a", "b"}, MaxLen)

\* result = remove_prefix(string, prefix=affix, or_throw=or_throw)
Call_remove_prefix ==
    /\ pc = "prelude"
    /\ result' = remove_prefix(string, affix, or_throw)
    /\ UNCHANGED <<commands, tabular, string, affix, or_throw>>

\* result = remove_suffix(string, suffix=affix, or_throw=or_throw)
Call_remove_suffix ==
    /\ pc = "prelude"
    /\ result' = remove_suffix(string, affix, or_throw)
    /\ UNCHANGED <<commands, tabular, string, affix, or_throw>>

InitPrelude ==
    /\ CommandIdle
    /\ pc = "prelude"
    /\ table = NewTable
    /\ table_call = NoTableCall
    /\ string \in Strings
    /\ affix \in Strings
    /\ or_throw \in BOOLEAN
    /\ result = NoResult

NextPrelude == Call_remove_prefix \/ Call_remove_suffix

SpecPrelude == InitPrelude /\ [][NextPrelude]_vars

(***************************************************************************)
(* Properties.                                                             *)
(***************************************************************************)
\* the call of parse has ended, with a ParseResult or an exception
ParseEnded == pc \in {"parsed", "raised", "return", "exit", "raise"}

\* the command whose arguments are parsed (only read in _parse_command)
TheCmd == CommandOf(cmd_or_group)

\* argv[j] lies after a literal "--" (argv[0] is the program name)
AfterDashDash(av, j) == \E i \in 1..(j - 1) : At(av, i) = DashDash

\* the name part of a token written as a flag: the text before the first "="
FlagNameOf(tok) == IF Contains(tok, "=") THEN SplitOnce(tok, "=")[1] ELSE tok

\* the text of a token after the first "=" (only read when it has one)
FlagValueOf(tok) == SplitOnce(tok, "=")[2]

FlagErrors ==
    {"unknown flag", "flag was repeated", "mutually exclusive",
     "flag argument must be 'true' or 'false'", "expected argument after",
     "expected argument after, not another flag"}

\* C1: in a command that is not passthrough, a token after the first "--" is
\* never taken by the help, version or flag branch of the scan, and the parse
\* never stops at such a token with a help signal, a version signal or an
\* error about a flag.
C1_AfterDashDashNoFlags ==
    (cmd_or_group \in CommandNames /\ AfterDashDash(argv, index)) =>
        /\ (pc = "scan" /\ index < Len(argv)) =>
               ScanBranch(argv, Frame) \in {"positional", "dashdash"}
        /\ pc = "scan" => done_with_flags
        /\ ParseEnded =>
               /\ raised.exc \notin {"CmdHelpError", "CmdVersionError"}
               /\ raised.msg \notin FlagErrors

\* a token that looks like a flag, or is a help token, came after "--" and
\* was bound to the list positional
C1_Witness ==
    /\ pc = "parsed"
    /\ cmd_or_group = "echo"
    /\ \E j \in 1..Len(args[1].value.l) :
          /\ _is_help_flag(args[1].value.l[j].s)
          /\ AfterDashDash(argv, Len(argv) - 1)

\* the places of argv where flag name is written as a flag: before any "--"
Occurrences(av, name) ==
    {j \in 1..(Len(av) - 1) :
        /\ _is_flag(At(av, j))
        /\ FlagNameOf(At(av, j)) = name
        /\ ~AfterDashDash(av, j)}

\* the second place where name is written, when there are two
SecondOccurrence(av, name) ==
    CHOOSE j \in Occurrences(av, name) :
        Cardinality({i \in Occurrences(av, name) : i < j}) = 1

\* the names of the flags of cmd that argv supplies twice or more
SuppliedTwice(cmd, av) ==
    {cmd._flags[k].name : k \in {k \in 1..Len(cmd._flags) :
        Cardinality(Occurrences(av, cmd._flags[k].name)) >= 2}}

\* C2 as stated: an argv that supplies a flag twice always ends in CmdError.
C2_Original ==
    (root \in CommandNames /\ ParseEnded /\ SuppliedTwice(TheCmd, argv) # {}) =>
        raised.exc = "CmdError"

\* C2: an argv that supplies a flag twice never parses: it ends in CmdError,
\* or in the help or version signal of a help or version token that the scan
\* met before the second occurrence of the flag.
C2_RepeatedFlagNeverParses ==
    (root \in CommandNames /\ ParseEnded) =>
        \A name \in SuppliedTwice(TheCmd, argv) :
            \/ raised.exc = "CmdError"
            \/ /\ raised.exc \in {"CmdHelpError", "CmdVersionError"}
               /\ index < SecondOccurrence(argv, name)
               /\ _is_help_flag(At(argv, index)) \/ _is_version_flag(At(argv, index))

\* the scan met the second occurrence of a many-arity flag and refused it
C2_Witness ==
    /\ pc = "raised"
    /\ raised.msg = "flag was repeated"
    /\ \E k \in 1..Len(flags_to_parse) :
          /\ flags_to_parse[k].spec.name = raised.arg
          /\ flags_to_parse[k].spec.n = "many"
    /\ index = SecondOccurrence(argv, raised.arg)

\* the flag of cmd named name (only read when cmd has it)
FlagSpec(cmd, name) ==
    cmd._flags[CHOOSE k \in 1..Len(cmd._flags) : cmd._flags[k].name = name]

HasFlag(cmd, name) == \E k \in 1..Len(cmd._flags) : cmd._flags[k].name = name

\* argv[j:] is made of complete occurrences of flags of cmd and of nothing
\* else: a switch as -s, -s=true or -s=false, a one-arity flag as -q=v or as
\* -q followed by a token that does not look like a flag
RECURSIVE OnlyFlagOccurrences(_, _, _)
OnlyFlagOccurrences(cmd, av, j) ==
    IF j >= Len(av) THEN TRUE
    ELSE LET tok == At(av, j)
             name == FlagNameOf(tok)
         IN  /\ _is_flag(tok)
             /\ HasFlag(cmd, name)
             /\ CASE FlagSpec(cmd, name).n = "zero" ->
                        /\ Contains(tok, "=") =>
                               FlagValueOf(tok) \in {<<"t", "r", "u", "e">>,
                                                     <<"f", "a", "l", "s", "e">>}
                        /\ OnlyFlagOccurrences(cmd, av, j + 1)
                  [] FlagSpec(cmd, name).n = "one" ->
                        IF Contains(tok, "=") THEN OnlyFlagOccurrences(cmd, av, j + 1)
                        ELSE /\ j + 1 < Len(av)
                             /\ ~_is_flag(At(av, j + 1))
                             /\ OnlyFlagOccurrences(cmd, av, j + 2)
                  [] OTHER -> FALSE

\* the members of the group that argv supplies
MembersSupplied(mutex, av) ==
    {k \in 1..Len(mutex.flags) : Occurrences(av, mutex.flags[k]) # {}}

\* kwargs[dest] of the ParseResult
KwargOf(dest) == kwargs[CHOOSE k \in 1..Len(kwargs) : kwargs[k].dest = dest].value

\* what a ParseResult holds for a flag that was not supplied
DefaultResult(spec) == IF spec.n = "zero" THEN PyBool(FALSE) ELSE None

\* C3: for a command whose flags are the two members of one mutual-exclusion
\* group (a switch and an optional flag) and an argv made of complete
\* occurrences of them: with no member supplied the parse is a CmdError unless
\* the group is optional, and then it succeeds with both members at their
\* defaults; with both members supplied it is a CmdError; with one member
\* supplied once it succeeds and the other member is bound to its default
\* (False for the switch, None for the flag).
C3_MutexOfTwo ==
    (/\ root \in {"mutex", "mutexopt"}
     /\ ParseEnded
     /\ OnlyFlagOccurrences(TheCmd, argv, 1)) =>
        LET mutex == TheCmd._mutexes[1]
            supplied == MembersSupplied(mutex, argv)
        IN  /\ supplied = {} =>
                 IF mutex.optional
                 THEN /\ pc # "raised" /\ raised = NoException
                      /\ \A k \in 1..2 :
                            KwargOf(FlagSpec(TheCmd, mutex.flags[k]).dest) =
                                DefaultResult(FlagSpec(TheCmd, mutex.flags[k]))
                 ELSE /\ raised.exc = "CmdError"
                      /\ raised.msg = "exactly one of the following is required"
            /\ supplied = {1, 2} => raised.exc = "CmdError"
            /\ \A k \in 1..2 :
                 (supplied = {k} /\ Cardinality(Occurrences(argv, mutex.flags[k])) = 1) =>
                     /\ raised = NoException
                     /\ KwargOf(FlagSpec(TheCmd, mutex.flags[3 - k]).dest) =
                            DefaultResult(FlagSpec(TheCmd, mutex.flags[3 - k]))

\* both members were supplied, each completely, and the second was refused
C3_Witness ==
    /\ root = "mutex"
    /\ pc = "raised"
    /\ OnlyFlagOccurrences(TheCmd, argv, 1)
    /\ MembersSupplied(TheCmd._mutexes[1], argv) = {1, 2}
    /\ raised.msg = "mutually exclusive"

\* C4 as stated: when a converter raises on a supplied value, parse reports a
\* parse error: with bail_on_error it prints the `Command-line error:` line
\* and exits with code 1, without it the caller gets a CmdError.
C4_ConverterFailureIsParseError ==
    (pc \in {"exit", "raise", "return"} /\ raised.msg = "converter") =>
        /\ raised.exc = "CmdError"
        /\ IF bail_on_error
           THEN /\ pc = "exit"
                /\ exit_code = 1
                /\ stderr = <<Printed("Command-line error:", "", <<>>)>>
           ELSE pc = "raise"

\* the outcome of a parse: the ParseResult or the exception, without the
\* position at which a help signal was raised
Outcome(f) ==
    [returned |-> f.returned,
     raised |-> [f.raised EXCEPT !.index = 0],
     args |-> IF f.returned THEN f.args ELSE <<>>,
     kwargs |-> IF f.returned THEN f.kwargs ELSE <<>>]

\* the places of argv where a one-arity flag of cmd is given as -x=value
JoinedOccurrences(cmd, av) ==
    {j \in 1..(Len(av) - 1) :
        /\ _is_flag(At(av, j))
        /\ Contains(At(av, j), "=")
        /\ ~AfterDashDash(av, j)
        /\ HasFlag(cmd, FlagNameOf(At(av, j)))
        /\ FlagSpec(cmd, FlagNameOf(At(av, j))).n = "one"}

\* argv with the token -x=value at argv[j] written as the two tokens -x value
Separated(av, j) ==
    SubSeq(av, 1, j) \o <<FlagNameOf(At(av, j)), FlagValueOf(At(av, j))>>
        \o SubSeq(av, j + 2, Len(av))

NegativeNumber(tok) ==
    /\ Len(tok) >= 2
    /\ tok[1] = "-"
    /\ tok[2] \in Digits
    /\ LET j == SpanDigits(tok, 2)
       IN  \/ j = Len(tok) + 1
           \/ /\ j < Len(tok)
              /\ tok[j] = "."
              /\ SpanDigits(tok, j + 1) = Len(tok) + 1

\* the scan is at a flag of arity n, written without "=", that it accepts
AtBareFlag(n) ==
    /\ pc = "scan"
    /\ index < Len(argv)
    /\ ScanBranch(argv, Frame) = "flag"
    /\ ~Contains(At(argv, index), "=")
    /\ LET k == FlagsGet(Frame, At(argv, index))
       IN  /\ k # 0
           /\ flags_to_parse[k].spec.n = n
           /\ ~flags_to_parse[k].is_set

\* C6: a negative number such as -1 or -1.5 is never treated as a flag: after
\* a one-arity or many-arity flag it is that flag's value (the first one of
\* the list), as a free token it takes the positional branch and is bound to
\* the next positional when there is one, and the parse never stops with
\* 'unknown flag' at it.
C6_NegativeNumberIsValue ==
    /\ (pc = "scan" /\ index < Len(argv) /\ NegativeNumber(At(argv, index))) =>
          /\ ScanBranch(argv, Frame) = "positional"
          /\ positionals_index < Len(positionals_to_parse) =>
                LET f == ScanPositional(argv, Frame)
                    v == f.positionals_to_parse[positionals_index + 1].value
                IN  /\ f.raised = NoException
                    /\ v = PyStr(At(argv, index))
                         \/ (v.t = "list" /\ v.l[1] = PyStr(At(argv, index)))
    /\ \A n \in {"one", "many"} :
          (AtBareFlag(n) /\ index + 1 < Len(argv)
                /\ NegativeNumber(At(argv, index + 1))) =>
             LET f == ScanFlag(argv, Frame)
                 v == f.flags_to_parse[FlagsGet(Frame, At(argv, index))].value
             IN  /\ f.raised = NoException
                 /\ f.index >= index + 2
                 /\ IF n = "one" THEN v = PyStr(At(argv, index + 1))
                    ELSE v.t = "list" /\ v.l[1] = PyStr(At(argv, index + 1))
    /\ (ParseEnded /\ cmd_or_group \in CommandNames /\ index < Len(argv)
            /\ NegativeNumber(At(argv, index))) =>
          raised.exc \notin {"CmdHelpError", "CmdVersionError"}
          /\ raised.msg \notin {"unknown flag", "flag was repeated", "mutually exclusive"}

\* -l -1 -1: the first -1 became the value of the flag, the second went to
\* the positional, and the parse returned both as the int -1
C6_Witness ==
    /\ pc = "parsed"
    /\ root = "num"
    /\ argv = <<Prog, <<"-", "l">>, <<"-", "1">>, <<"-", "1">>>>
    /\ KwargOf("l") = PyInt(-1)
    /\ args[1].value = PyInt(-1)

\* the parameters of cmd are required one-arity str positionals, at least one
OnlyRequiredStrPositionals(cmd) ==
    /\ cmd._passthrough = ""
    /\ cmd._flags = <<>>
    /\ Len(cmd._positionals) >= 1
    /\ \A k \in 1..Len(cmd._positionals) :
          /\ cmd._positionals[k].required
          /\ cmd._positionals[k].n = "one"
          /\ cmd._positionals[k].converter = "str"

\* the i-th token of argv is bound to the i-th positional of cmd, for every i
BoundInOrder(cmd) ==
    /\ pc = "parsed"
    /\ kwargs = <<>>
    /\ Len(args) = Len(cmd._positionals)
    /\ \A i \in 1..Len(cmd._positionals) :
          args[i] = Bound(cmd._positionals[i].dest, PyStr(At(argv, i)))

\* C7 as stated: with k required str positionals and exactly k tokens after
\* the program name, whatever the tokens, the parse succeeds and binds them in
\* order.
C7_Original ==
    (/\ root \in CommandNames
     /\ OnlyRequiredStrPositionals(TheCmd)
     /\ Len(argv) - 1 = Len(TheCmd._positionals)
     /\ pc \in {"parsed", "raised"}) =>
        BoundInOrder(TheCmd)

\* C7: for a command whose parameters are k required one-arity str
\* positionals and an argv with exactly k tokens after the program name, none
\* of which looks like a flag (a hyphen followed by more that is not a
\* number: this covers "--" and the help and version tokens), the parse
\* succeeds and binds the i-th token to the i-th positional.
C7_PositionalsInOrder ==
    (/\ root \in CommandNames
     /\ OnlyRequiredStrPositionals(TheCmd)
     /\ Len(argv) - 1 = Len(TheCmd._positionals)
     /\ \A i \in 1..(Len(argv) - 1) : ~_is_flag(At(argv, i))
     /\ pc \in {"parsed", "raised"}) =>
        BoundInOrder(TheCmd)

\* two different tokens were bound to the two positionals, in their order
C7_Witness ==
    /\ root = "pos2"
    /\ argv = <<Prog, <<"-", "1">>, <<"a">>>>
    /\ BoundInOrder(TheCmd)

\* C8: a passthrough command parsed from cursor i returns argv[i:] as the value
\* of its argument, token for token and in order, with nothing else bound,
\* whatever the tokens are; its parse never raises.
C8_PassthroughVerbatim ==
    (/\ cmd_or_group \in CommandNames
     /\ TheCmd._passthrough # ""
     /\ pc \notin {"dispatch", "_parse"}) =>
        /\ pc \in {"parsed", "invoke"} \/ handler_calls = 1 \/ log_exc # "none"
        /\ raised = NoException
        /\ kwargs = <<>>
        /\ Len(args) = 1
        /\ args[1].dest = TheCmd._passthrough
        /\ args[1].value.t = "list"
        /\ Len(args[1].value.l) = Len(argv) - index
        /\ \A j \in 1..(Len(argv) - index) :
              args[1].value.l[j] = PyStr(At(argv, index + j - 1))

\* "--" and a help token were passed through, below a Group
C8_Witness ==
    /\ root = "root"
    /\ cmd_or_group = "pass"
    /\ pc = "parsed"
    /\ index = 2
    /\ argv = <<Prog, <<"r">>, DashDash, <<"-", "h">>>>
    /\ args[1].value = StrList(<<DashDash, <<"-", "h">>>>)

\* dispatch has ended
DispatchEnded == pc \in {"return", "exit", "raise"}

ParseErrors ==
    {"unknown flag", "flag was repeated", "mutually exclusive",
     "flag argument must be 'true' or 'false'", "expected another argument",
     "expected argument after", "expected argument after, not another flag",
     "extra argument", "missing argument", "missing mandatory flag",
     "exactly one of the following is required", "group is empty"}

\* C9: a parse error (a CmdError: unknown flag, repeated flag, missing
\* argument, malformed boolean literal, extra argument, ...) never leads to
\* the handler; with bail_on_error dispatch prints one diagnostic to stderr
\* and exits with code 1, without it the CmdError is raised to the caller and
\* sys.exit is not called.
C9_ParseErrorExits ==
    raised.exc = "CmdError" =>
        /\ raised.msg \in ParseErrors
        /\ handler_calls = 0
        /\ pc \in {"raised", "exit", "raise"}
        /\ stdout = <<>>
        /\ DispatchEnded =>
              IF bail_on_error
              THEN /\ pc = "exit"
                   /\ exit_code = 1
                   /\ stderr = <<Printed("Command-line error:", "", <<>>)>>
              ELSE /\ pc = "raise"
                   /\ exit_code = -1
                   /\ stderr = <<>>

\* a malformed boolean literal ended dispatch with exit code 1
C9_Witness ==
    /\ pc = "exit"
    /\ bail_on_error
    /\ raised.msg = "flag argument must be 'true' or 'false'"
    /\ exit_code = 1

\* the status the process ends with when dispatch is the last call of the
\* script: the argument of sys.exit, 0 after a return, 1 after an exception
ExitStatus ==
    CASE pc = "exit" -> exit_code
      [] pc = "return" -> 0
      [] pc = "raise" -> 1

HelpMessages == {"too few arguments", "expected subcommand, got", "unknown subcommand"}

PrintedTo(stream, t) == \E k \in 1..Len(stream) : stream[k].text = t

\* C11: an exception raised by the handler leaves dispatch as it is, unless
\* it is a KgError and the command has less_logging: then, and only then,
\* dispatch prints the traceback and the human-readable context to stderr and
\* exits with code 1.  The handler is invoked at most once per dispatch.
C11_HandlerFailure ==
    /\ handler_calls <= 1
    /\ handler_exc # "none" =>
          /\ handler_calls = 1
          /\ raised = NoException
          /\ stdout = <<>>
          /\ IF handler_exc = "KgError" /\ TheCmd.less_logging
             THEN /\ pc = "exit"
                  /\ exit_code = 1
                  /\ PrintedTo(stderr, "traceback")
                  /\ PrintedTo(stderr, "to_human_str")
             ELSE /\ pc = "raise"
                  /\ exit_code = -1
                  /\ stderr = <<>>

\* the handler of a command with less_logging raised KgError: dispatch exited
C11_Witness ==
    /\ handler_exc = "KgError"
    /\ TheCmd.less_logging
    /\ handler_calls = 1
    /\ pc = "exit"
    /\ exit_code = 1

\* the two rules of a positional list
WellFormedPositionals(ps) ==
    /\ \A k \in 1..Len(ps) : ps[k].n = "many" => k = Len(ps)
    /\ \A j, k \in 1..Len(ps) : (j < k /\ ~ps[j].required) => ~ps[k].required

\* the step is a call of one of the declaring methods
Declares(ops) == call'.k = call.k + 1 /\ call'.op \in ops

\* the call of the step raised a specification error and changed nothing
Rejected == call'.raised.exc = "CmdError" /\ self' = self

\* the step declares a positional the list cannot take
BreaksPositionals ==
    /\ Declares({"_arg"})
    /\ \/ \E k \in 1..Len(self._positionals) : self._positionals[k].n = "many"
       \/ /\ call'.required
          /\ \E k \in 1..Len(self._positionals) : ~self._positionals[k].required

\* C12: whatever declarations were made on a Command, accepted or rejected,
\* at most one of its positionals is many-arity and that one is the last, and
\* no required positional follows an optional one; declaring a positional
\* after a list positional, or a required positional after an optional one,
\* raises a specification error and leaves the positional list as it was.
C12_PositionalRules ==
    /\ [](WellFormedPositionals(self._positionals))
    /\ [][BreaksPositionals => Rejected]_vars

\* a positional declared after a list positional was rejected
C12_Witness ==
    /\ call.op = "_arg"
    /\ call.raised.msg = "list positional argument must be last"
    /\ call.name = <<"b">>
    /\ Len(self._positionals) = 1
    /\ self._positionals[1].n = "many"

\* C13: a Command with a passthrough destination has no flag and no
\* positional; _add_passthrough on a Command that has a flag or a positional,
\* and _switch, _arg or _flag on a Command that has a passthrough, raise a
\* specification error and change nothing.
C13_PassthroughExcludesSpecs ==
    /\ [](self._passthrough # <<>> =>
             Len(self._flags) = 0 /\ Len(self._positionals) = 0)
    /\ [][/\ (/\ Declares({"_add_passthrough"})
              /\ Len(self._flags) + Len(self._positionals) > 0) => Rejected
          /\ (/\ Declares({"_switch", "_arg", "_flag"})
              /\ self._passthrough # <<>>) => Rejected]_vars

\* a flag declared on a passthrough Command was rejected
C13_Witness ==
    /\ self._passthrough = <<"a">>
    /\ call.op = "_flag"
    /\ call.name = <<"-", "x">>
    /\ call.raised.msg = "command was already specified as passthrough"
    /\ Len(self._flags) = 0

\* the switches of cmd
Switches(cmd) == {cmd._flags[k] : k \in {k \in 1..Len(cmd._flags) : cmd._flags[k].n = "zero"}}

\* what a switch written as tok is bound to, None when tok is malformed
SwitchValue(tok) ==
    IF ~Contains(tok, "=") THEN PyBool(TRUE)
    ELSE IF FlagValueOf(tok) = <<"t", "r", "u", "e">> THEN PyBool(TRUE)
    ELSE IF FlagValueOf(tok) = <<"f", "a", "l", "s", "e">> THEN PyBool(FALSE)
    ELSE None

\* C14: in a ParseResult a switch that argv does not supply is False, a
\* switch written bare is True, and a switch written -name=true or
\* -name=false is that literal.  An argv that writes a switch with any other
\* text after "=" never parses, and once the scan has come to that token the
\* outcome is a CmdError.
C14_SwitchValues ==
    (root \in CommandNames /\ ParseEnded) =>
        \A sw \in Switches(TheCmd) :
            /\ (raised = NoException /\ Occurrences(argv, sw.name) = {}) =>
                   KwargOf(sw.dest) = PyBool(FALSE)
            /\ \A j \in Occurrences(argv, sw.name) :
                   IF SwitchValue(At(argv, j)) # None
                   THEN raised = NoException =>
                            KwargOf(sw.dest) = SwitchValue(At(argv, j))
                   ELSE /\ raised # NoException
                        /\ index >= j => raised.exc = "CmdError"
                        /\ (index = j + 1 /\ Cardinality(Occurrences(argv, sw.name)) = 1) =>
                               raised.msg = "flag argument must be 'true' or 'false'"

\* -n=false was given together with a word: n is False in the ParseResult
C14_Witness ==
    /\ pc = "parsed"
    /\ root = "echo"
    /\ Occurrences(argv, <<"-", "n">>) # {}
    /\ \A j \in Occurrences(argv, <<"-", "n">>) : Contains(At(argv, j), "=")
    /\ KwargOf("n") = PyBool(FALSE)

\* the step scans argv[index] of a command after the first "--" was scanned
ScansLatched ==
    /\ pc = "scan"
    /\ index < Len(argv)
    /\ AfterDashDash(argv, index)
    /\ index' # index \/ pc' # pc

\* the step bound argv[index] into the next positional slot: as the value of
\* a one-arity positional, or as the first item of a list positional
BindsToken ==
    /\ positionals_index < Len(positionals_to_parse)
    /\ positionals_index' = positionals_index + 1
    /\ LET value == positionals_to_parse'[positionals_index + 1].value
       IN  \/ value = PyStr(At(argv, index))
           \/ /\ value.t = "list"
              /\ value.l # <<>>
              /\ value.l[1] = PyStr(At(argv, index))

\* the step rejected argv[index] as an extra argument
RejectsToken ==
    /\ raised'.exc = "CmdError"
    /\ raised'.msg = "extra argument"
    /\ raised'.arg = At(argv, index)

\* C15: once the first "--" has been scanned, every token the scan comes to,
\* a further "--" and flag-looking or help tokens included, is bound into a
\* positional slot or rejected as an extra argument; none is skipped.
C15_LatchedTokensArePositional ==
    [][ScansLatched => (BindsToken \/ RejectsToken)]_vars

\* the step scans argv[index] of a command before any "--" was scanned
ScansUnlatched ==
    /\ pc = "scan"
    /\ index < Len(argv)
    /\ ~AfterDashDash(argv, index)
    /\ index' # index \/ pc' # pc

\* C16: when the scan of a command comes to a help token (-h, -help, --help,
\* -?) before any "--", the parse ends there with the help signal, which
\* carries the command and the index of the token and no message; when it
\* comes to a version token it ends with the version signal.  This is so
\* whatever is missing and whatever the later tokens are, and such a token is
\* never reported as an unknown flag.
C16_HelpAndVersionFirst ==
    [][/\ (ScansUnlatched /\ At(argv, index) \in HelpFlags) =>
              /\ pc' = "raised"
              /\ raised'.exc = "CmdHelpError"
              /\ raised'.cmd_or_group = cmd_or_group
              /\ raised'.index = index
              /\ raised'.message = ""
       /\ (ScansUnlatched /\ At(argv, index) \in VersionFlags) =>
              /\ pc' = "raised"
              /\ raised'.exc = "CmdVersionError"]_vars

\* the help token came second, before a token that is no flag of the command,
\* and the second positional is missing: the help signal carries index 2
C16_Witness ==
    /\ root = "pos2"
    /\ Len(argv) = 4
    /\ At(argv, 2) \in HelpFlags
    /\ At(argv, 3) = <<"-", "z">>
    /\ pc = "raised"
    /\ raised.exc = "CmdHelpError"
    /\ raised.cmd_or_group = "pos2"
    /\ raised.index = 2

\* the place of the first "--" of argv, Len(av) when there is none
FirstDashDash(av) ==
    IF \E j \in 1..(Len(av) - 1) : At(av, j) = DashDash
    THEN CHOOSE j \in 1..(Len(av) - 1) :
             At(av, j) = DashDash /\ \A i \in 1..(j - 1) : At(av, i) # DashDash
    ELSE Len(av)

\* argv[j] is the argument of a flag: it follows a one-arity flag of cmd that
\* is written without "="
IsFlagArgument(cmd, av, j) ==
    /\ j >= 2
    /\ _is_flag(At(av, j - 1))
    /\ ~Contains(At(av, j - 1), "=")
    /\ HasFlag(cmd, At(av, j - 1))
    /\ FlagSpec(cmd, At(av, j - 1)).n = "one"

\* the places of argv whose tokens are neither a flag, nor a flag's argument,
\* nor the "--" marker: before the first "--" the tokens that do not look like
\* a flag and follow no bare one-arity flag, after it every token
WordPlaces(cmd, av) ==
    {j \in 1..(Len(av) - 1) :
        \/ j > FirstDashDash(av)
        \/ /\ j < FirstDashDash(av)
           /\ ~_is_flag(At(av, j))
           /\ ~IsFlagArgument(cmd, av, j)}

\* the tokens of av at the places of S, in the order of av
RECURSIVE TokensAt(_, _, _)
TokensAt(av, S, j) ==
    IF j >= Len(av) THEN <<>>
    ELSE (IF j \in S THEN <<At(av, j)>> ELSE <<>>) \o TokensAt(av, S, j + 1)

\* C17: in the ParseResult of a command whose only positional is a list, the
\* list holds, in the order of argv, every token that is not a flag, a flag's
\* argument or the "--" marker, and so every token that follows the first
\* "--".
C17_ListPositionalTakesAll ==
    (root = "echo" /\ pc = "parsed") =>
        args[1].value = StrList(TokensAt(argv, WordPlaces(TheCmd, argv), 1))

\* a token that looks like a flag: a hyphen and at least one more character,
\* not a negative number
LooksLikeFlag(tok) == Len(tok) >= 2 /\ tok[1] = "-" /\ ~NegativeNumber(tok)

\* the entry of flag name in a table of flags
FlagEntry(entries, name) ==
    entries[CHOOSE k \in 1..Len(entries) : entries[k].spec.name = name]

\* the step scans, before any "--", a flag of arity n of the command that was
\* not supplied before and that no supplied flag excludes
ScansFlag(n) ==
    /\ ScansUnlatched
    /\ LooksLikeFlag(At(argv, index))
    /\ HasFlag(TheCmd, FlagNameOf(At(argv, index)))
    /\ FlagSpec(TheCmd, FlagNameOf(At(argv, index))).n = n
    /\ ~FlagEntry(flags_to_parse, FlagNameOf(At(argv, index))).is_set
    /\ \A m \in 1..Len(mutexes) :
          (\E k \in 1..Len(mutexes[m].eligible_flags) :
              mutexes[m].eligible_flags[k] = FlagNameOf(At(argv, index))) =>
          mutexes[m].satisfied = <<>>

\* the step ended the parse with a CmdError
StepRaisesCmdError == pc' = "raised" /\ raised'.exc = "CmdError"

\* the step gave the scanned flag the value v and left the cursor at j
StepTakes(v, j) ==
    /\ pc' = "scan"
    /\ index' = j
    /\ FlagEntry(flags_to_parse', FlagNameOf(At(argv, index))).value = v

\* where the run of tokens that do not look like a flag, starting at argv[i],
\* ends: the place of the next flag-looking token, or Len(av)
RunEnd(av, i) ==
    CHOOSE e \in i..Len(av) :
        /\ \A j \in i..(e - 1) : ~LooksLikeFlag(At(av, j))
        /\ e = Len(av) \/ LooksLikeFlag(At(av, e))

\* the items joined by commas
RECURSIVE JoinCommas(_)
JoinCommas(items) ==
    IF Len(items) = 1 THEN items[1].s
    ELSE items[1].s \o <<",">> \o JoinCommas(Tail(items))

\* list l is text v split on commas
IsSplitOnCommas(l, v) ==
    /\ l.t = "list"
    /\ Len(l.l) >= 1
    /\ \A k \in 1..Len(l.l) : l.l[k].t = "str" /\ ~Contains(l.l[k].s, ",")
    /\ JoinCommas(l.l) = v

\* C18: a many-arity flag written without "=" takes the longest run of
\* following tokens that do not look like a flag, up to the next flag-looking
\* token or the end of argv, and leaves the cursor at the first token it did
\* not take; if the run is empty the parse ends with a CmdError.  Written
\* -x=v it takes no further token and its value is v split on commas.
C18_ManyFlagTakesRun ==
    [][ScansFlag("many") =>
          LET tok == At(argv, index)
              e == RunEnd(argv, index + 1)
          IN  IF Contains(tok, "=")
              THEN /\ pc' = "scan"
                   /\ index' = index + 1
                   /\ IsSplitOnCommas(FlagEntry(flags_to_parse', FlagNameOf(tok)).value,
                                      FlagValueOf(tok))
              ELSE IF e = index + 1 THEN StepRaisesCmdError
              ELSE StepTakes(StrList(SubSeq(argv, index + 2, e)), e)]_vars

\* -t took the negative number and stopped at the flag-looking -z
C18_Witness ==
    /\ root = "tags"
    /\ pc = "scan"
    /\ Len(argv) = 4
    /\ At(argv, 1) = <<"-", "t">>
    /\ At(argv, 3) = <<"-", "z">>
    /\ index = 3
    /\ flags_to_parse[1].value = StrList(<<(<<"-", "1">>)>>)

\* C19: a one-arity flag written without "=" takes exactly the next token as
\* its value, and the parse ends with a CmdError if there is no next token or
\* if it looks like a flag ("--" and the help tokens do, a lone "-" does
\* not); written -x=value it takes the value and no following token.
C19_OneFlagTakesNext ==
    [][ScansFlag("one") =>
          LET tok == At(argv, index)
          IN  IF Contains(tok, "=") THEN StepTakes(PyStr(FlagValueOf(tok)), index + 1)
              ELSE IF index + 1 >= Len(argv) \/ LooksLikeFlag(At(argv, index + 1))
              THEN StepRaisesCmdError
              ELSE StepTakes(PyStr(At(argv, index + 1)), index + 2)]_vars

\* -l took the lone hyphen that follows it as its value
C19_Witness ==
    /\ root = "num"
    /\ pc = "scan"
    /\ Len(argv) = 3
    /\ At(argv, 1) = <<"-", "l">>
    /\ At(argv, 2) = <<"-">>
    /\ index = 3
    /\ flags_to_parse[1].value = PyStr(<<"-">>)

\* args[dest] of the ParseResult
ArgOf(dest) == args[CHOOSE k \in 1..Len(args) : args[k].dest = dest].value

\* value v is what the converter makes of final value x: converter(x), or
\* for a list the list of converter(item), none of the calls raising
IsConverted(v, conv, x) ==
    IF x.t = "list"
    THEN /\ v.t = "list"
         /\ Len(v.l) = Len(x.l)
         /\ \A k \in 1..Len(x.l) : CallConverter(conv, x.l[k]) = <<"none", v.l[k]>>
    ELSE CallConverter(conv, x) = <<"none", v>>

ResolvesGroup ==
    /\ pc = "_parse"
    /\ cmd_or_group \in GroupNames
    /\ pc' # pc \/ cmd_or_group' # cmd_or_group

\* the step ended with a help signal that carries the group, the index and
\* the note
StepSignalsHelp(note) ==
    /\ pc' = "raised"
    /\ raised'.exc = "CmdHelpError"
    /\ raised'.cmd_or_group = cmd_or_group
    /\ raised'.index = index
    /\ raised'.message = note

\* the child of the Group under key tok, when it has one
HasChild(group, tok) == \E k \in 1..Len(group.subcmds) : group.subcmds[k].key = tok

ChildOf(group, tok) ==
    group.subcmds[CHOOSE k \in 1..Len(group.subcmds) : group.subcmds[k].key = tok].node

\* what the claim says of a step that resolves a Group
GroupPriorities ==
    IF index >= Len(argv) THEN StepSignalsHelp("too few arguments")
    ELSE IF At(argv, index) \in HelpFlags THEN StepSignalsHelp("")
    ELSE IF At(argv, index) \in VersionFlags
    THEN pc' = "raised" /\ raised'.exc = "CmdVersionError"
    ELSE IF LooksLikeFlag(At(argv, index))
    THEN StepSignalsHelp("expected subcommand, got") /\ raised'.arg = At(argv, index)
    ELSE IF ~HasChild(GroupOf(cmd_or_group), At(argv, index))
    THEN StepSignalsHelp("unknown subcommand") /\ raised'.arg = At(argv, index)
    ELSE /\ pc' = "_parse"
         /\ raised' = NoException
         /\ cmd_or_group' = ChildOf(GroupOf(cmd_or_group), At(argv, index))
         /\ index' = index + 1

\* C21 as stated: every Group, whatever its subcommands, is resolved in the
\* order: no token, help or version marker, flag-looking token, unknown name,
\* child.
C21_Original == [][ResolvesGroup => GroupPriorities]_vars

\* C21: a Group that has at least one subcommand is resolved in the order:
\* no token left (help, 'too few arguments'), help marker (help, no note) or
\* version marker (version signal), flag-looking token (help, 'expected
\* subcommand'), name that is no key of the Group (help, 'unknown
\* subcommand'), else the child under that name with the cursor moved by one;
\* every help signal carries the Group and the cursor.  A Group with no
\* subcommand raises the CmdError 'group is empty' before any of this.
C21_GroupResolution ==
    [][ResolvesGroup =>
          IF Len(GroupOf(cmd_or_group).subcmds) = 0
          THEN /\ pc' = "raised"
               /\ raised'.exc = "CmdError"
               /\ raised'.msg = "group is empty"
          ELSE GroupPriorities]_vars

\* two levels of Groups were resolved: root, then sub, then the command
C21_Witness ==
    /\ root = "root"
    /\ cmd_or_group = "pos1"
    /\ index = 3
    /\ At(argv, 1) = <<"g">>
    /\ At(argv, 2) = <<"p">>
    /\ raised = NoException


(***************************************************************************)
(* C22: the positionals that the scan left unfilled.                       *)
(***************************************************************************)
\* the step that follows the scan loop of a command
ScanIsOver == pc = "scan" /\ index >= Len(argv) /\ pc' # "scan"

\* the scan gave the positional no token
IsUnfilled(s_and_v) == s_and_v.value = s_and_v.spec.default

IsUnfilledRequired(s_and_v) == IsUnfilled(s_and_v) /\ s_and_v.spec.required

UnfilledRequired == NamesOf(SelectSeq(positionals_to_parse, IsUnfilledRequired))

\* what an unfilled optional positional is bound to
UnfilledValue(spec) == IF spec.n = "many" THEN PyList(<<>>) ELSE None

\* C22: after the scan, unfilled required positionals make the parse raise
\* the one "missing argument" error that names exactly them in declaration
\* order; without any, no such error is raised, and a parse that succeeds
\* binds every unfilled optional positional to None, or to the empty list
\* when it is a list positional.
C22_MissingPositionals ==
    [][ScanIsOver =>
          /\ UnfilledRequired # <<>> =>
                /\ pc' = "raised"
                /\ raised' = CmdError("missing argument", <<>>, UnfilledRequired)
          /\ UnfilledRequired = <<>> => raised'.msg # "missing argument"
          /\ pc' = "parsed" =>
                \A k \in 1..Len(positionals_to_parse) :
                   IsUnfilled(positionals_to_parse[k]) =>
                      /\ Len(args') >= k
                      /\ args'[k] = Bound(positionals_to_parse[k].spec.dest,
                                         UnfilledValue(positionals_to_parse[k].spec))]_vars

\* `rest` given only `--`: the error names a and leaves the optional rest out
C22_Witness ==
    /\ root = "rest"
    /\ argv = <<Prog, DashDash>>
    /\ pc = "raised"
    /\ raised = CmdError("missing argument", <<>>, <<(<<"a">>)>>)


(***************************************************************************)
(* C23: the mutexes that from_function accepts.                            *)
(***************************************************************************)
\* the parameters annotated with the mutex
Members(mutex_id) == {k \in 1..Len(sig) : sig[k].mutex = mutex_id}

\* an optional flag or a switch, with no default of its own
MemberAllowed(param) ==
    /\ param.base_type = "bool" \/ (param.kind = "KEYWORD_ONLY" /\ param.optional)
    /\ param.default = NOTHING

GroupAllowed(mutex_id) ==
    /\ Cardinality(Members(mutex_id)) >= 2
    /\ \A k \in Members(mutex_id) : MemberAllowed(sig[k])

GroupsAllowed == \A mutex_id \in MutexIds : Members(mutex_id) # {} => GroupAllowed(mutex_id)

\* every mutex of the Command names two or more of its optional flags
ReturnedGroups ==
    \A g \in 1..Len(self._mutexes) :
       /\ Len(self._mutexes[g].flags) >= 2
       /\ \A j \in 1..Len(self._mutexes[g].flags) :
             \E k \in 1..Len(self._flags) :
                /\ self._flags[k].name = self._mutexes[g].flags[j]
                /\ ~self._flags[k].required

\* C23: from_function returns a Command only if every mutex of the signature
\* has two or more members, each an optional flag or a switch without a
\* default; a signature that breaks this makes it raise a CmdError; the
\* mutexes of a returned Command each name two or more optional flags.
C23_MutexAccepted ==
    /\ pc = "returned" => GroupsAllowed /\ ReturnedGroups
    /\ pc \in {"returned", "raised"} /\ ~GroupsAllowed =>
          pc = "raised" /\ raised.exc = "CmdError"

\* a switch and an optional flag under one mutex: the Command is returned
C23_Witness ==
    /\ pc = "returned"
    /\ Len(sig) = 2
    /\ sig[1].mutex = "m" /\ sig[2].mutex = "m"
    /\ sig[1].base_type = "bool" /\ sig[2].base_type = "str"
    /\ Len(self._mutexes) = 1
    /\ self._mutexes[1].flags = <<(<<"-", "a">>), (<<"-", "b">>)>>


(***************************************************************************)
(* C24: log_init and the handler.                                          *)
(***************************************************************************)
\* the level the override names, case-insensitively
OverrideLevels ==
    {<<(<<"e", "r", "r", "o", "r">>), "ERROR">>, <<(<<"w", "a", "r", "n">>), "WARN">>,
     <<(<<"w", "a", "r", "n", "i", "n", "g">>), "WARN">>,
     <<(<<"i", "n", "f", "o">>), "INFO">>, <<(<<"d", "e", "b", "u", "g">>), "DEBUG">>}

IsRecognized(env) == \E o \in OverrideLevels : o[1] = lower(env)

\* the override when it is set, the default of the command otherwise
LevelFor(env, cmd) ==
    IF env # <<>> THEN (CHOOSE o \in OverrideLevels : o[1] = lower(env))[2]
    ELSE IF cmd.less_logging THEN "WARN" ELSE "INFO"

\* the step calls the handler
InvokesHandler == handler_calls' > handler_calls

\* the step calls log_init
CallsLogInit == log_init_calls' # log_init_calls

\* C24: in a dispatch that is given log_init: a parse that succeeds is
\* followed by one call of log_init, made before the handler is invoked and
\* never after, with the level KG_LOG_LEVEL names when it is set and else
\* WARN for a command with less_logging, INFO otherwise; an unrecognized
\* KG_LOG_LEVEL raises KgError and the handler is not invoked; after a parse
\* error, a help signal or a version signal neither log_init nor the handler
\* is called.
C24_LogInitBeforeHandler ==
    /\ [](log_init =>
            /\ Len(log_init_calls) <= 1
            /\ raised # NoException => log_init_calls = <<>> /\ handler_calls = 0
            /\ (pc \in {"invoke", "return", "exit", "raise"} /\ raised = NoException) =>
                  IF env_log_level = <<>> \/ IsRecognized(env_log_level)
                  THEN /\ log_init_calls = <<LevelFor(env_log_level, TheCmd)>>
                       /\ log_exc = "none"
                  ELSE /\ log_exc = "KgError"
                       /\ pc = "raise"
                       /\ handler_calls = 0
                       /\ log_init_calls = <<>>)
    /\ [][log_init =>
             /\ InvokesHandler => Len(log_init_calls) = 1 /\ ~CallsLogInit
             /\ CallsLogInit => pc = "parsed" /\ handler_calls = 0]_vars

\* KG_LOG_LEVEL=WARN on a command without less_logging: log_init got WARN and
\* the handler has run
C24_Witness ==
    /\ log_init
    /\ root = "loud"
    /\ env_log_level = <<"W", "A", "R", "N">>
    /\ log_init_calls = <<"WARN">>
    /\ handler_calls = 1
    /\ pc = "return"



(***************************************************************************)
(* C27: parsing terminates.                                                *)
(***************************************************************************)
\* an iteration of the scan loop of _parse_command
ScanIteration == pc = "scan" /\ index < Len(argv) /\ <<pc, Frame>>' # <<pc, Frame>>

\* parse was called and has not ended
InParse == pc \in {"dispatch", "_parse", "scan"}

\* the tokens left to the cursor
TokensLeft == Len(argv) - index

\* what bounds the steps that a parse has left: the tokens left to the
\* cursor, counted twice, and the place in _parse
Measure ==
    CASE pc = "dispatch" -> 2 * Len(argv) + 3
      [] pc = "_parse" -> 2 * TokensLeft + 2
      [] pc = "scan" -> 2 * TokensLeft + 1
      [] OTHER -> 0

\* the parse is at a place from which the code goes on
HasStep ==
    CASE pc = "dispatch" -> TRUE
      [] pc = "_parse" -> cmd_or_group \in GroupNames \cup CommandNames
      [] pc = "scan" ->
            \/ index >= Len(argv)
            \/ ScanBranch(argv, Frame) \in
                  {"dashdash", "help", "version", "flag", "positional"}

\* C27: every iteration of the scan loop raises or moves the cursor forward,
\* never past the end of argv; resolving a Group raises or moves the cursor
\* by exactly one token into the child; so every step of a parse that has
\* not ended lowers a measure that is never negative, and a parse that has
\* not ended has a step to take: it reaches a result, a parse error, or a
\* help or version signal.
C27_ParsingTerminates ==
    /\ [][ScanIteration =>
             \/ pc' = "raised"
             \/ pc' = "scan" /\ index' > index /\ TokensLeft' >= 0]_vars
    /\ [][ResolvesGroup =>
             \/ pc' = "raised"
             \/ pc' = "_parse" /\ index' = index + 1 /\ TokensLeft' >= 0]_vars
    /\ [][InParse => Measure' < Measure]_vars
    /\ [](Measure >= 0 /\ (InParse => HasStep))

\* a list flag took two tokens in one iteration and the parse returned
C27_Witness ==
    /\ root = "tags"
    /\ argv = <<Prog, <<"-", "t">>, <<"a">>, <<"-", "1">>>>
    /\ pc = "parsed"
    /\ index = 4


(***************************************************************************)
(* C28: which error a completed scan reports.                              *)
(***************************************************************************)
\* the flag is required and argv does not supply it
IsNeverSupplied(s_and_v) ==
    s_and_v.spec.required /\ Occurrences(argv, s_and_v.spec.name) = {}

NeverSupplied == NamesOf(SelectSeq(flags_to_parse, IsNeverSupplied))

\* the mandatory mutex has no member in argv
IsLeftOpen(mutex) == ~mutex.optional /\ MembersSupplied(mutex, argv) = {}

LeftOpen == SelectSeq(TheCmd._mutexes, IsLeftOpen)

IsAscending(names) ==
    \A i, j \in 1..Len(names) : i < j => ~StrLess(names[j], names[i])

SameNames(a, b) ==
    Len(a) = Len(b) /\ {a[k] : k \in 1..Len(a)} = {b[k] : k \in 1..Len(b)}

PostScanErrors ==
    {"missing argument", "missing mandatory flag",
     "exactly one of the following is required"}

\* C28: a completed scan reports one error, the first that applies of:
\* the unfilled required positionals; the required flags that argv never
\* supplies, all of them, their names in ascending order; the first mandatory
\* mutex none of whose members argv supplies.  When none applies none of the
\* three is reported.
C28_PostScanPrecedence ==
    [][ScanIsOver =>
          IF UnfilledRequired # <<>>
          THEN raised' = CmdError("missing argument", <<>>, UnfilledRequired)
          ELSE IF NeverSupplied # <<>>
          THEN /\ raised'.exc = "CmdError"
               /\ raised'.msg = "missing mandatory flag"
               /\ SameNames(raised'.names, NeverSupplied)
               /\ IsAscending(raised'.names)
          ELSE IF LeftOpen # <<>>
          THEN raised' = CmdError("exactly one of the following is required", <<>>,
                                  LeftOpen[1].flags)
          ELSE raised'.msg \notin PostScanErrors]_vars

\* `full a`: -z, -b and the mutex are all missing; the flags are reported,
\* sorted
C28_Witness ==
    /\ root = "full"
    /\ argv = <<Prog, <<"a">>>>
    /\ pc = "raised"
    /\ raised = CmdError("missing mandatory flag", <<>>, <<(<<"-", "b">>), (<<"-", "z">>)>>)


(***************************************************************************)
(* C29: a mutex is satisfied by the occurrence of a member.                *)
(***************************************************************************)
\* the step scans, before any "--", a token written as a flag of the command
ScansKnownFlag ==
    /\ ScansUnlatched
    /\ LooksLikeFlag(At(argv, index))
    /\ HasFlag(TheCmd, FlagNameOf(At(argv, index)))

\* the name of the flag the step scans
ScannedName == FlagNameOf(At(argv, index))

\* the places before the cursor where argv supplies the flag
Earlier(name) == {j \in Occurrences(argv, name) : j < index}

\* the mutexes of the command that have the flag as a member
MutexesOf(name) ==
    {m \in 1..Len(TheCmd._mutexes) :
        \E k \in 1..Len(TheCmd._mutexes[m].flags) : TheCmd._mutexes[m].flags[k] = name}

\* the other members of mutex m that argv supplies before the cursor
EarlierOthers(m, name) ==
    {k \in 1..Len(TheCmd._mutexes[m].flags) :
        /\ TheCmd._mutexes[m].flags[k] # name
        /\ Earlier(TheCmd._mutexes[m].flags[k]) # {}}

\* argv supplies a member switch of the mutex as -name=false
SuppliedFalse(mutex) ==
    \E k \in 1..Len(mutex.flags), j \in 1..(Len(argv) - 1) :
       /\ FlagSpec(TheCmd, mutex.flags[k]).n = "zero"
       /\ j \in Occurrences(argv, mutex.flags[k])
       /\ At(argv, j) = mutex.flags[k] \o <<"=", "f", "a", "l", "s", "e">>

\* C29: a flag that argv supplied earlier is reported as repeated, member of
\* a mutex or not; a member scanned after another member of its mutex is
\* rejected as mutually exclusive with it, whatever value the earlier one
\* got; a member scanned first marks its mutex satisfied whatever value it
\* gets, so that a mandatory mutex whose member switch is supplied as
\* -name=false does not make the completed scan fail, and the parse that
\* succeeds binds every member to its default.
C29_MutexByOccurrence ==
    /\ [][ScansKnownFlag =>
             IF Earlier(ScannedName) # {}
             THEN raised' = CmdError("flag was repeated", ScannedName, <<>>)
             ELSE \A m \in MutexesOf(ScannedName) :
                     IF EarlierOthers(m, ScannedName) # {}
                     THEN /\ pc' = "raised"
                          /\ raised'.msg = "mutually exclusive"
                          /\ raised'.names[2] = ScannedName
                          /\ Earlier(raised'.names[1]) # {}
                     ELSE pc' = "scan" => mutexes'[m].satisfied = ScannedName]_vars
    /\ [][ScanIsOver =>
             \A m \in 1..Len(TheCmd._mutexes) :
                SuppliedFalse(TheCmd._mutexes[m]) =>
                   /\ raised'.msg # "exactly one of the following is required"
                   /\ (UnfilledRequired = <<>> /\ NeverSupplied = <<>> /\ LeftOpen = <<>>) =>
                         raised'.exc # "CmdError"
                   /\ pc' = "parsed" =>
                         \A k \in 1..Len(TheCmd._mutexes[m].flags) :
                            \E b \in 1..Len(kwargs') :
                               /\ kwargs'[b].dest = FlagSpec(TheCmd, TheCmd._mutexes[m].flags[k]).dest
                               /\ kwargs'[b].value =
                                     DefaultResult(FlagSpec(TheCmd, TheCmd._mutexes[m].flags[k]))]_vars

\* -s=false then -q=a under a mandatory mutex: rejected as mutually exclusive
C29_Witness ==
    /\ root = "mutex"
    /\ argv = <<Prog, <<"-", "s", "=", "f", "a", "l", "s", "e">>, <<"-", "q", "=", "a">>>>
    /\ pc = "raised"
    /\ raised = CmdError("mutually exclusive", <<"-", "q">>, <<(<<"-", "s">>), (<<"-", "q">>)>>)


(***************************************************************************)
(* C30: removing an affix the str has leaves the rest of the str.          *)
(***************************************************************************)
\* the str has the affix: at its start for remove_prefix, at its end for
\* remove_suffix
HasAffix ==
    IF result.op = "remove_prefix" THEN StartsWith(string, affix)
    ELSE EndsWith(string, affix)

\* the affix put back on the str the call returned
PutBack ==
    IF result.op = "remove_prefix" THEN affix \o result.value
    ELSE result.value \o affix

\* C30: after remove_prefix or remove_suffix, if the str has the affix the
\* call returned r with affix + r = s (r + affix = s for a suffix), the empty
\* affix included, for which r is s; if it does not have it the call returned
\* s itself, or raised KgError when or_throw is true.
C30_AffixRemoved ==
    result.op # "" =>
        IF HasAffix
        THEN /\ result.raised = ""
             /\ PutBack = string
             /\ (affix = <<>> => result.value = string)
        ELSE IF or_throw THEN result.raised # ""
        ELSE result.raised = "" /\ result.value = string

(***************************************************************************)
(* C25: the rows of a Table are of one length and the widths are the       *)
(* maxima of the display widths.                                           *)
(***************************************************************************)
\* position k of s is inside an ANSI code: from an ESC and a "[" through
\* characters of [;?0-9] to the one letter that ends the code
InCode(s, k) ==
    \E a \in 1..k : \E e \in k..Len(s) :
        /\ e >= a + 2
        /\ s[a] = ESC
        /\ s[a + 1] = "["
        /\ \A j \in (a + 2)..(e - 1) : IsCodeChar(s[j])
        /\ IsLetter(s[e])

\* the length of s with the ANSI codes stripped
DisplayWidth(s) == Cardinality({k \in 1..Len(s) : ~InCode(s, k)})

\* the greatest display width in column i of the stored rows
ColumnWidth(i) ==
    CHOOSE w \in 0..20 :
        /\ \E r \in 1..Len(table._rows) : DisplayWidth(table._rows[r][i]) = w
        /\ \A r \in 1..Len(table._rows) : DisplayWidth(table._rows[r][i]) <= w

RowsOfOneLength ==
    table._rows # <<>> =>
        /\ table._n = Len(table._rows[1])
        /\ table._n > 0
        /\ \A r \in 1..Len(table._rows) : Len(table._rows[r]) = Len(table._rows[1])

WidthsAreMaxima ==
    IF table._rows = <<>> THEN table._widths = <<>>
    ELSE /\ Len(table._widths) = Len(table._rows[1])
         /\ \A i \in 1..Len(table._widths) : table._widths[i] = ColumnWidth(i)

\* every cell, left-justified as the rendering does, shows as wide as its column
ColumnsAligned ==
    \A r \in 1..Len(table._rows) : \A i \in 1..Len(table._rows[r]) :
        DisplayWidth(left_justify(table._rows[r][i], table._widths[i]))
            = table._widths[i]

\* the step is a call of Table.row or Table.header
RowCall == table_call'.op \in {"row", "header"} /\ tabular' # tabular

\* the call of the step is one to reject: an empty first row, or a row that
\* is not as long as the first
ToReject ==
    IF table._rows = <<>> THEN table_call'.n = 0
    ELSE table_call'.n # Len(table._rows[1])

\* C25: after any sequence of Table.row and Table.header calls every stored
\* row has as many items as the first accepted row and the width recorded for
\* a column is the greatest display width (length with the ANSI codes
\* stripped) of its cells, so the rendered columns are aligned; a call is
\* rejected exactly when it gives an empty first row or a row of another
\* length, and a rejected call raises and leaves rows, column count and
\* widths as they were, while an accepted call appends one row.
C25_RowsAndWidths ==
    /\ [](RowsOfOneLength /\ WidthsAreMaxima /\ ColumnsAligned)
    /\ [][RowCall =>
            /\ (table_call'.raised # "") = ToReject
            /\ (ToReject => table' = table)
            /\ (~ToReject =>
                    /\ Len(table'._rows) = Len(table._rows) + 1
                    /\ SubSeq(table'._rows, 1, Len(table._rows)) = table._rows
                    /\ Len(table'._rows[Len(table'._rows)]) = table_call'.n)]_vars

\* a header in yellow and a wider row were accepted, then a row of two items
\* was rejected
C25_Witness ==
    /\ table_call.op = "row"
    /\ table_call.raised = "row wrong length"
    /\ table_call.n = 2
    /\ table._rows = << <<yellow(<<"b">>)>>, <<(<<"1", "0">>)>> >>
    /\ table._widths = <<2>>
    /\ table._n = 1

(***************************************************************************)
(* C26: Table.sort keeps the header and sorts the other rows.              *)
(***************************************************************************)
\* the step is a call of Table.sort
SortCall == table_call'.op = "sort" /\ tabular' # tabular

\* the places (1-based) of the header whose stripped text is column
NamedBy(t, column) == {i \in 1..Len(t._rows[1]) : strip(t._rows[1][i]) = column}

\* the column the name stands for: the first of those places
Named(t, column) ==
    CHOOSE i \in NamedBy(t, column) : \A j \in NamedBy(t, column) : i <= j

\* rows `after` are rows `before` below the header in ascending order of
\* their value in column c, rows of equal value in their former order
IsStableSort(before, after, c) ==
    /\ Len(after) = Len(before)
    /\ after[1] = before[1]
    /\ \E p \in Permutations(2..Len(before)) :
          /\ \A k \in 2..Len(before) : after[k] = before[p[k]]
          /\ \A j, k \in 2..Len(before) :
                j < k =>
                   /\ ~StrLess(after[k][c], after[j][c])
                   /\ (after[k][c] = after[j][c] => p[j] < p[k])

\* C26: Table.sort(column) keeps the first row in place as the header and
\* puts the other rows in ascending order of their value in the named
\* column, equal values keeping their order, so that the rows are the same
\* multiset and the widths are untouched; sorting again changes nothing; on
\* an empty table or a name that no header cell has it raises and leaves
\* the table as it was.
C26_SortKeepsHeader ==
    [][SortCall =>
          LET column == table_call'.column
              rejected == table._rows = <<>> \/ NamedBy(table, column) = {}
          IN  /\ (table_call'.raised # "") = rejected
              /\ (rejected => table' = table)
              /\ (~rejected =>
                     /\ IsStableSort(table._rows, table'._rows, Named(table, column))
                     /\ table'._widths = table._widths
                     /\ table'._n = table._n
                     /\ sort(table', column).table = table'
                     /\ sort(table', column).raised = "")]_vars

\* a table of two columns was sorted by its second column: below the yellow
\* header the rows are in the order of that column, not of the first
C26_Witness ==
    /\ table_call.op = "sort"
    /\ table_call.raised = ""
    /\ table_call.column = <<"a", "a">>
    /\ table._rows = << <<yellow(<<"b">>), yellow(<<"a", "a">>)>>,
                        <<(<<"b">>), (<<"1", "0">>)>>,
                        <<(<<"1", "0">>), (<<"a", "a">>)>> >>

====
